---- MODULE Spec2Model ----
(***************************************************************************)
(* Model of the Firebird schema comparator: the metadata provider          *)
(* (database_connection.py), the DDL synthesizer (sql_generator.py), the   *)
(* comparators (comparators.py) and the worker that sequences them         *)
(* (worker_thread.py).  SQL text is modelled as TLA+ strings, built the    *)
(* way the f-strings of the source build it.  The literals of the source   *)
(* that carry an accent are written without it: "(VACIA)" for the empty    *)
(* primary key, "Comparando indices...", "Comparando llaves foraneas..."   *)
(* and "No se seleccionaron opciones de comparacion" for the messages.     *)
(***************************************************************************)
EXTENDS Integers, Sequences, FiniteSets, TLC

VARIABLES
    catalog,           \* the system tables of every database, by connection
    c1, c2,            \* the two connections of the run
    options,           \* the options dict of the run
    pc,                \* where the run is
    step,              \* the step counter of run_comparison
    diferencias,       \* the report list
    sql_objects_bd1,   \* SQLGenerator.sql_objects_bd1
    sql_objects_bd2,   \* SQLGenerator.sql_objects_bd2
    signals,           \* the signals emitted so far, in order
    invoked,           \* the comparator calls made so far, in order
    raised,            \* the exception that ended the run ("" when none)
    provider_errors,   \* the metadata-provider calls that raised so far
    files,             \* what the export wrote (None before the export)
    emitted,           \* the emit_sql calls made so far, in order
    generated,         \* the generate_* calls made on the generator directly, in order
    view_reads,        \* the get_view_definition calls made so far, in order
    runs,              \* how each earlier run of this process ended, in order
    app                \* the main window: compare button, path fields, worker threads

vars == <<catalog, c1, c2, options, pc, step, diferencias, sql_objects_bd1, sql_objects_bd2,
          signals, invoked, raised, provider_errors, files, emitted, generated,
          view_reads, runs, app>>

(***************************************************************************)
(* Python values.  None is the empty tuple and an optional value v is the  *)
(* one-element tuple <<v>>, so that None never has to be compared with an  *)
(* integer or a string.                                                    *)
(***************************************************************************)
None == << >>
Some(v) == <<v>>
IsNone(o) == o = << >>
Val(o) == o[1]

\* str(o) for an optional integer
StrOptInt(o) == IF IsNone(o) THEN "None" ELSE ToString(Val(o))
\* str(o) for an optional string
StrOptStr(o) == IF IsNone(o) THEN "None" ELSE Val(o)
\* bool(o) for an optional integer: None and 0 are falsy
TruthyInt(o) == ~IsNone(o) /\ Val(o) # 0
\* bool(o) for an optional string: None and "" are falsy
TruthyStr(o) == ~IsNone(o) /\ Val(o) # ""
Abs(n) == IF n < 0 THEN -n ELSE n

(***************************************************************************)
(* Strings: code-point order, upper(), strip(), startswith(), in, join().  *)
(***************************************************************************)
AsciiOrder == "\n $'(),-0123456789:;ABCDEFGHIJKLMNOPQRSTUVWXYZ[]_abcdefghijklmnopqrstuvwxyz{}"
LowerCase == "abcdefghijklmnopqrstuvwxyz"
UpperCase == "ABCDEFGHIJKLMNOPQRSTUVWXYZ"
Ch(s, i) == SubSeq(s, i, i)
Ord(ch) == IF \E i \in 1..Len(AsciiOrder) : Ch(AsciiOrder, i) = ch
           THEN CHOOSE i \in 1..Len(AsciiOrder) : Ch(AsciiOrder, i) = ch
           ELSE 0

RECURSIVE StrLess(_, _)
StrLess(a, b) ==
    IF Len(b) = 0 THEN FALSE
    ELSE IF Len(a) = 0 THEN TRUE
    ELSE IF Ch(a, 1) = Ch(b, 1) THEN StrLess(SubSeq(a, 2, Len(a)), SubSeq(b, 2, Len(b)))
    ELSE Ord(Ch(a, 1)) < Ord(Ch(b, 1))

\* sorted(S) for a set of strings
RECURSIVE sorted(_)
sorted(S) ==
    IF S = {} THEN << >>
    ELSE LET m == CHOOSE x \in S : \A y \in S \ {x} : StrLess(x, y)
         IN <<m>> \o sorted(S \ {m})

UpperChar(ch) == IF \E i \in 1..26 : Ch(LowerCase, i) = ch
                 THEN Ch(UpperCase, CHOOSE i \in 1..26 : Ch(LowerCase, i) = ch)
                 ELSE ch
RECURSIVE upper(_)
upper(s) == IF Len(s) = 0 THEN "" ELSE UpperChar(Ch(s, 1)) \o upper(SubSeq(s, 2, Len(s)))

IsSpace(ch) == ch = " " \/ ch = "\n"
RECURSIVE lstrip(_)
lstrip(s) == IF Len(s) > 0 /\ IsSpace(Ch(s, 1)) THEN lstrip(SubSeq(s, 2, Len(s))) ELSE s
RECURSIVE rstrip(_)
rstrip(s) == IF Len(s) > 0 /\ IsSpace(Ch(s, Len(s))) THEN rstrip(SubSeq(s, 1, Len(s) - 1)) ELSE s
strip(s) == rstrip(lstrip(s))

startswith(s, p) == Len(p) <= Len(s) /\ SubSeq(s, 1, Len(p)) = p
\* sub in s
Contains(s, sub) == \E i \in 1..(Len(s) - Len(sub) + 1) : SubSeq(s, i, i + Len(sub) - 1) = sub
\* s[n:]
From(s, n) == SubSeq(s, n + 1, Len(s))

\* sep.join(seq)
RECURSIVE join(_, _)
join(sep, seq) ==
    IF Len(seq) = 0 THEN ""
    ELSE IF Len(seq) = 1 THEN seq[1]
    ELSE seq[1] \o sep \o join(sep, Tail(seq))

\* the elements of a sequence, and a sequence without repeated elements
Range(seq) == {seq[i] : i \in 1..Len(seq)}

(***************************************************************************)
(* Python dicts are sequences of [key, value] entries in insertion order.  *)
(***************************************************************************)
keys(d) == [i \in 1..Len(d) |-> d[i].key]
KeySet(d) == {d[i].key : i \in 1..Len(d)}
Item(d, k) == d[CHOOSE i \in 1..Len(d) : d[i].key = k].value
\* d[k] = v: replaces the value of an existing key, appends a new one
SetItem(d, k, v) ==
    IF k \in KeySet(d)
    THEN [i \in 1..Len(d) |-> IF d[i].key = k THEN [key |-> k, value |-> v] ELSE d[i]]
    ELSE Append(d, [key |-> k, value |-> v])

(***************************************************************************)
(* The catalogs the model draws its two databases from.  A connection is   *)
(* a handle 1..NumDatabases; Catalog(con) is what the system tables of     *)
(* that database hold: the rows the provider's queries return.             *)
(***************************************************************************)
NumDatabases == 4
TableNames == {"CUSTOMER", "ORDERS"}

FieldRow(name, type_name, len, prec, scale, nullable, default, pos, charset) ==
    [field_name |-> name, type_name |-> type_name, field_length |-> len,
     field_precision |-> prec, field_scale |-> scale, nullable |-> nullable,
     domain |-> "RDB$" \o ToString(pos), default_source |-> default,
     computed |-> "NO", field_position |-> pos, computed_source |-> None,
     charset_name |-> charset, collation_name |-> charset]

F_ID == FieldRow("ID", "LONG", Some(4), Some(0), Some(0), "NO", None, 0, None)
F_NAME(len) == FieldRow("NAME", "VARYING", Some(len), None, Some(0), "SI", None, 1, Some("UTF8"))
F_EMAIL == FieldRow("EMAIL", "VARCHAR", Some(80), None, Some(0), "SI", Some("DEFAULT ''"), 2, Some("UTF8"))
F_CUSTOMER_ID == FieldRow("CUSTOMER_ID", "LONG", Some(4), Some(0), Some(0), "SI", None, 1, None)
F_TOTAL == FieldRow("TOTAL", "NUMERIC", Some(8), Some(18), Some(-2), "SI", Some("DEFAULT 0"), 2, None)

IndexRow(name, unique_flag, fields) == [name |-> name, unique_flag |-> unique_flag, fields |-> Some(fields)]
FkRow(name, field, table, ref_field) ==
    [constraint_name |-> name, field_name |-> field, relation_name |-> table, referenced_field |-> ref_field]
TriggerRow(name, type, source, table, inactive) ==
    [name |-> name, type |-> type, source |-> Some(source), table |-> Some(table),
     sequence |-> 0, inactive |-> inactive]
ProcedureRow(name, source) == [name |-> name, source |-> Some(source)]
ViewRow(name, source) == [name |-> name, source |-> source]
GeneratorRowOf(name, readable, value) == [name |-> name, readable |-> readable, value |-> value]

OrdersIndexes == <<IndexRow("IX_ORDERS_TOTAL", Some(0), "TOTAL"),
                   IndexRow("IX_ORDERS_CUST", None, "CUSTOMER_ID")>>
OrdersFks == <<FkRow("FK_ORDERS_CUSTOMER", "CUSTOMER_ID", "ORDERS", "ID")>>

\* database 1: the reference schema
Database1 ==
    [relations |-> {"CUSTOMER", "ORDERS"},
     field_rows |-> [t \in TableNames |-> IF t = "CUSTOMER" THEN <<F_ID, F_NAME(50)>>
                                          ELSE <<F_ID, F_CUSTOMER_ID, F_TOTAL>>],
     index_rows |-> [t \in TableNames |-> IF t = "CUSTOMER"
                                          THEN <<IndexRow("IX_CUSTOMER_NAME", Some(0), "NAME")>>
                                          ELSE OrdersIndexes],
     pk_rows |-> [t \in TableNames |-> <<"ID">>],
     fk_rows |-> [t \in TableNames |-> IF t = "ORDERS" THEN OrdersFks ELSE << >>],
     trigger_rows |-> <<TriggerRow("TR_ORDERS_BI", 1, "AS BEGIN END", "ORDERS", 0)>>,
     procedure_rows |-> <<ProcedureRow("SP_TOTAL", "SUSPEND;")>>,
     view_rows |-> <<ViewRow("V_CUSTOMER", "SELECT ID FROM CUSTOMER")>>,
     generator_rows |-> <<GeneratorRowOf("GEN_ORDERS", TRUE, 42)>>]

\* database 2: no ORDERS table, no view, no procedure; the generator cannot be read
Database2 ==
    [Database1 EXCEPT
     !.relations = {"CUSTOMER"},
     !.field_rows = [t \in TableNames |-> IF t = "CUSTOMER" THEN <<F_ID, F_NAME(50)>> ELSE << >>],
     !.index_rows = [t \in TableNames |-> IF t = "CUSTOMER"
                                          THEN <<IndexRow("IX_CUSTOMER_NAME", Some(0), "NAME")>>
                                          ELSE << >>],
     !.pk_rows = [t \in TableNames |-> IF t = "CUSTOMER" THEN <<"ID">> ELSE << >>],
     !.fk_rows = [t \in TableNames |-> << >>],
     !.trigger_rows = << >>,
     !.procedure_rows = << >>,
     !.view_rows = << >>,
     !.generator_rows = <<GeneratorRowOf("GEN_ORDERS", FALSE, 0)>>]

\* database 3: CUSTOMER.NAME is narrower, ORDERS has no primary key, the index is
\* unique, the foreign key of ORDERS references another field, the trigger is
\* inactive, the procedure and the view have another body, the generators hold
\* other values
Database3 ==
    [Database1 EXCEPT
     !.field_rows = [t \in TableNames |-> IF t = "CUSTOMER" THEN <<F_ID, F_NAME(30)>>
                                          ELSE <<F_ID, F_CUSTOMER_ID, F_TOTAL>>],
     !.index_rows = [t \in TableNames |-> IF t = "CUSTOMER"
                                          THEN <<IndexRow("IX_CUSTOMER_NAME", Some(1), "NAME")>>
                                          ELSE OrdersIndexes],
     !.pk_rows = [t \in TableNames |-> IF t = "ORDERS" THEN << >> ELSE <<"ID">>],
     !.fk_rows = [t \in TableNames |->
                     IF t = "ORDERS"
                     THEN <<FkRow("FK_ORDERS_CUSTOMER", "CUSTOMER_ID", "ORDERS", "NAME")>>
                     ELSE << >>],
     !.trigger_rows = <<TriggerRow("TR_ORDERS_BI", 1, "AS BEGIN END", "ORDERS", 1)>>,
     !.procedure_rows = <<ProcedureRow("SP_TOTAL", "EXIT;")>>,
     !.view_rows = <<ViewRow("V_CUSTOMER", "SELECT NAME FROM CUSTOMER")>>,
     !.generator_rows = <<GeneratorRowOf("GEN_ORDERS", TRUE, 7),
                          GeneratorRowOf("RDB$12", TRUE, 9)>>]

\* database 4: CUSTOMER has one more field, index and a composite key; ORDERS has no
\* foreign key; one more trigger, procedure, view and two more generators
Database4 ==
    [Database1 EXCEPT
     !.field_rows = [t \in TableNames |-> IF t = "CUSTOMER" THEN <<F_ID, F_NAME(50), F_EMAIL>>
                                          ELSE <<F_ID, F_CUSTOMER_ID, F_TOTAL>>],
     !.index_rows = [t \in TableNames |-> IF t = "CUSTOMER"
                                          THEN <<IndexRow("IX_CUSTOMER_NAME", Some(0), "NAME"),
                                                 IndexRow("RDB$7", Some(1), "EMAIL,NAME")>>
                                          ELSE OrdersIndexes],
     !.pk_rows = [t \in TableNames |-> IF t = "CUSTOMER" THEN <<"ID", "NAME">> ELSE <<"ID">>],
     !.fk_rows = [t \in TableNames |-> << >>],
     !.trigger_rows = <<TriggerRow("TR_ORDERS_BI", 1, "AS BEGIN END", "ORDERS", 0),
                        TriggerRow("RDB$9", 9, "AS BEGIN END", "CUSTOMER", 0)>>,
     !.procedure_rows = <<ProcedureRow("SP_TOTAL", "SUSPEND;"), ProcedureRow("RDB$3", "EXIT;")>>,
     !.view_rows = <<ViewRow("V_CUSTOMER", "SELECT ID FROM CUSTOMER"),
                     ViewRow("V_ORDERS", "SELECT ID FROM ORDERS")>>,
     !.generator_rows = <<GeneratorRowOf("GEN_ORDERS", FALSE, 0),
                          GeneratorRowOf("GEN_AUDIT", TRUE, 0),
                          GeneratorRowOf("RDB$12", TRUE, 5)>>]

\* database 5: only the ORDERS table, with a composite key, and nothing else
Database5 ==
    [Database2 EXCEPT
     !.relations = {"ORDERS"},
     !.field_rows = [t \in TableNames |-> IF t = "ORDERS" THEN <<F_ID, F_TOTAL>> ELSE << >>],
     !.index_rows = [t \in TableNames |-> << >>],
     !.pk_rows = [t \in TableNames |-> IF t = "ORDERS" THEN <<"ID", "TOTAL">> ELSE << >>],
     !.generator_rows = << >>]

Catalog(con) ==
    CASE con = 1 -> Database1
      [] con = 2 -> Database2
      [] con = 3 -> Database3
      [] con = 4 -> Database4
      [] OTHER -> Database5
Connections == 1..NumDatabases

(***************************************************************************)
(* database_connection.py: the metadata provider.  Each query reads the    *)
(* system tables of its connection.                                        *)
(***************************************************************************)
get_tables(con) == sorted(catalog[con].relations)

get_views(con) == sorted({catalog[con].view_rows[i].name : i \in 1..Len(catalog[con].view_rows)})

get_view_definition(con, view_name) ==
    IF \E i \in 1..Len(catalog[con].view_rows) : catalog[con].view_rows[i].name = view_name
    THEN catalog[con].view_rows[CHOOSE i \in 1..Len(catalog[con].view_rows) : catalog[con].view_rows[i].name = view_name].source
    ELSE ""

get_generators(con) == sorted({catalog[con].generator_rows[i].name : i \in 1..Len(catalog[con].generator_rows)})

RECURSIVE IndexDict(_)
IndexDict(rows) ==
    IF Len(rows) = 0 THEN << >>
    ELSE LET r == rows[Len(rows)]
         IN SetItem(IndexDict(SubSeq(rows, 1, Len(rows) - 1)), r.name,
                    [unique |-> IF ~IsNone(r.unique_flag) THEN Val(r.unique_flag) # 0 ELSE FALSE,
                     fields |-> StrOptStr(IF TruthyStr(r.fields) THEN r.fields ELSE Some(""))])
get_indexes(con, table) == IndexDict(catalog[con].index_rows[table])

get_primary_keys(con, table) == catalog[con].pk_rows[table]

RECURSIVE ForeignKeyDict(_)
ForeignKeyDict(rows) ==
    IF Len(rows) = 0 THEN << >>
    ELSE LET r == rows[Len(rows)]
             d == ForeignKeyDict(SubSeq(rows, 1, Len(rows) - 1))
             old == IF r.constraint_name \in KeySet(d)
                    THEN Item(d, r.constraint_name)
                    ELSE [fields |-> << >>, referenced_table |-> r.relation_name,
                          referenced_fields |-> << >>,
                          update_rule |-> "NO ACTION", delete_rule |-> "NO ACTION"]
         IN SetItem(d, r.constraint_name,
                    [old EXCEPT !.fields = Append(@, r.field_name),
                                !.referenced_fields = Append(@, r.referenced_field)])
get_foreign_keys(con, table) == ForeignKeyDict(catalog[con].fk_rows[table])

RECURSIVE TriggerDict(_)
TriggerDict(rows) ==
    IF Len(rows) = 0 THEN << >>
    ELSE LET r == rows[Len(rows)]
         IN SetItem(TriggerDict(SubSeq(rows, 1, Len(rows) - 1)), r.name,
                    [type |-> r.type,
                     source |-> IF TruthyStr(r.source) THEN Val(r.source) ELSE "",
                     table |-> IF TruthyStr(r.table) THEN Val(r.table) ELSE "",
                     sequence |-> r.sequence,
                     inactive |-> r.inactive])
get_triggers(con) == TriggerDict(catalog[con].trigger_rows)

RECURSIVE ProcedureDict(_)
ProcedureDict(rows) ==
    IF Len(rows) = 0 THEN << >>
    ELSE LET r == rows[Len(rows)]
         IN SetItem(ProcedureDict(SubSeq(rows, 1, Len(rows) - 1)), r.name,
                    [source |-> IF TruthyStr(r.source) THEN Val(r.source) ELSE ""])
get_procedures(con) == ProcedureDict(catalog[con].procedure_rows)

\* the display type built at lines 273-281 of get_fields
TipoCompleto(type_name, longitud, precision, escala) ==
    IF upper(type_name) \in {"CHAR", "VARCHAR"} /\ TruthyInt(longitud)
    THEN type_name \o "(" \o StrOptInt(longitud) \o ")"
    ELSE IF upper(type_name) \in {"DECIMAL", "NUMERIC"} /\ ~IsNone(precision)
    THEN IF escala # Some(0)
         THEN type_name \o "(" \o StrOptInt(precision) \o "," \o ToString(Abs(Val(escala))) \o ")"
         ELSE type_name \o "(" \o StrOptInt(precision) \o ")"
    ELSE IF upper(type_name) = "BLOB" /\ longitud = Some(1) THEN "BLOB SUB_TYPE TEXT"
    ELSE IF upper(type_name) = "BLOB" THEN "BLOB"
    ELSE type_name

\* the character-set clause built at lines 283-291 of get_fields
CharsetInfo(charset_name, collation_name) ==
    IF TruthyStr(charset_name)
    THEN " CHARACTER SET " \o Val(charset_name)
         \o (IF TruthyStr(collation_name) /\ collation_name # charset_name
             THEN " COLLATE " \o Val(collation_name) ELSE "")
    ELSE " CHARACTER SET NONE COLLATE NONE"

FieldProps(row) ==
    [tipo |-> TipoCompleto(row.type_name, row.field_length, row.field_precision, row.field_scale),
     tipo_base |-> row.type_name,
     longitud |-> row.field_length,
     precision |-> row.field_precision,
     escala |-> row.field_scale,
     nullable |-> row.nullable,
     dominio |-> row.domain,
     default |-> row.default_source,
     computed |-> row.computed,
     computed_source |-> row.computed_source,
     orden |-> row.field_position,
     charset_info |-> CharsetInfo(row.charset_name, row.collation_name)]

RECURSIVE FieldDict(_)
FieldDict(rows) ==
    IF Len(rows) = 0 THEN << >>
    ELSE LET r == rows[Len(rows)]
         IN SetItem(FieldDict(SubSeq(rows, 1, Len(rows) - 1)), r.field_name, FieldProps(r))
get_fields(con, table) == FieldDict(catalog[con].field_rows[table])

\* _get_generator_value: the query fails on an unreadable generator
GeneratorRow(con, generator) ==
    catalog[con].generator_rows[CHOOSE i \in 1..Len(catalog[con].generator_rows) : catalog[con].generator_rows[i].name = generator]
GeneratorValueRaises(con, generator) == ~GeneratorRow(con, generator).readable
_get_generator_value(con, generator) == Some(GeneratorRow(con, generator).value)


(***************************************************************************)
(* sql_generator.py: SQLGenerator.  The comparators thread one record      *)
(*   st = [reporte, bd1, bd2, sig, exc, perr, inv, emi, vdef]              *)
(* through their calls: the report list, the two accumulators of the       *)
(* generator (kind -> list of statements), the signals emitted so far, the *)
(* exception that ended the call ("" when none), the provider calls that   *)
(* raised, the comparator calls made and the emit_sql calls made.          *)
(***************************************************************************)
\* a creation order in which the field additions come before the tables
CreationOrderFieldsFirst == <<"GENERADOR", "CAMPO", "TABLA", "PRIMARY_KEY", "INDICE",
                              "FOREIGN_KEY", "VISTA", "PROCEDIMIENTO", "TRIGGER">>
creation_order == <<"GENERADOR", "TABLA", "CAMPO", "PRIMARY_KEY", "INDICE",
                    "FOREIGN_KEY", "VISTA", "PROCEDIMIENTO", "TRIGGER">>
\* the keys an accumulator can hold: emit_sql accepts any kind
Tipos == Range(creation_order) \cup {"OTRO"}
EmptyAccumulator == [t \in Tipos |-> << >>]

Signal(name, a, b) == [signal |-> name, a |-> a, b |-> b]

\* a statement appended to both accumulators whatever the target
EmitSqlBoth(st, tipo, sql, destino) ==
    [st EXCEPT !.sig = Append(@, Signal("sql_generated", tipo, sql)),
               !.emi = Append(@, [tipo |-> tipo, sql |-> sql, destino |-> destino]),
               !.bd1 = [@ EXCEPT ![tipo] = Append(@, sql)],
               !.bd2 = [@ EXCEPT ![tipo] = Append(@, sql)]]
emit_sql(st, tipo, sql, destino) ==
    [st EXCEPT !.sig = Append(@, Signal("sql_generated", tipo, sql)),
               !.emi = Append(@, [tipo |-> tipo, sql |-> sql, destino |-> destino]),
               !.bd1 = IF destino = "BD1" THEN [@ EXCEPT ![tipo] = Append(@, sql)] ELSE @,
               !.bd2 = IF destino = "BD2" THEN [@ EXCEPT ![tipo] = Append(@, sql)] ELSE @]

\* the statements of an accumulator in the order _build_final_sql visits them
RECURSIVE FinalStatements(_, _)
FinalStatements(sql_objects, order) ==
    IF Len(order) = 0 THEN << >>
    ELSE [i \in 1..Len(sql_objects[order[1]]) |-> [tipo |-> order[1], sql |-> sql_objects[order[1]][i]]]
         \o FinalStatements(sql_objects, Tail(order))

RECURSIVE ConcatStatementsLastFirst(_)
\* the statements joined last one first
ConcatStatementsLastFirst(stmts) ==
    IF Len(stmts) = 0 THEN ""
    ELSE ConcatStatementsLastFirst(Tail(stmts)) \o stmts[1].sql \o "\n\n"
RECURSIVE ConcatStatements(_)
ConcatStatements(stmts) ==
    IF Len(stmts) = 0 THEN "" ELSE stmts[1].sql \o "\n\n" \o ConcatStatements(Tail(stmts))

_build_final_sql(sql_objects) == ConcatStatements(FinalStatements(sql_objects, creation_order))

get_sql_bd1(st) == _build_final_sql(st.bd1)
get_sql_bd2(st) == _build_final_sql(st.bd2)
\* a flattening that takes the statements out of the accumulator it reads
GetSqlDraining(sql_objects) == [acc |-> EmptyAccumulator, sql |-> _build_final_sql(sql_objects)]
\* get_sql_bd1 and get_sql_bd2 as calls: the accumulator after the call and the text
\* returned; _build_final_sql tests and iterates the lists and writes to none
GetSql(sql_objects) == [acc |-> sql_objects, sql |-> _build_final_sql(sql_objects)]

type_mapping == [key \in {"LONG", "SHORT", "INT64", "QUAD", "VARYING", "FLOAT", "DOUBLE",
                          "TIMESTAMP", "DATE", "TIME", "TEXT"} |->
    CASE key = "LONG" -> "INTEGER"
      [] key = "SHORT" -> "SMALLINT"
      [] key = "INT64" -> "BIGINT"
      [] key = "QUAD" -> "BIGINT"
      [] key = "VARYING" -> "VARCHAR"
      [] key = "DOUBLE" -> "DOUBLE PRECISION"
      [] key = "TEXT" -> "BLOB SUB_TYPE TEXT"
      [] OTHER -> key]

\* lines 136-146: length, precision and scale appended to the mapped name
SqlTypeWithSize(mapped, props) ==
    IF mapped \in {"CHAR", "VARCHAR", "CHARACTER VARYING"}
    THEN IF TruthyInt(props.longitud) /\ Val(props.longitud) > 0
         THEN mapped \o "(" \o ToString(Val(props.longitud)) \o ")"
         ELSE mapped \o "(1)"
    ELSE IF mapped \in {"DECIMAL", "NUMERIC"}
    THEN IF ~IsNone(props.precision)
         THEN IF TruthyInt(props.escala)
              THEN mapped \o "(" \o ToString(Val(props.precision)) \o ","
                          \o ToString(Abs(Val(props.escala))) \o ")"
              ELSE mapped \o "(" \o ToString(Val(props.precision)) \o ")"
         ELSE mapped
    ELSE IF mapped = "BLOB"
    THEN IF props.longitud = Some(1) THEN "BLOB SUB_TYPE TEXT" ELSE "BLOB"
    ELSE mapped

\* the name always mapped, a display type with parentheses not looked at
SqlTypeAlwaysMapped(tipo_base, tipo_completo, props) ==
    SqlTypeWithSize(IF tipo_base \in DOMAIN type_mapping THEN type_mapping[tipo_base]
                    ELSE IF tipo_completo \in DOMAIN type_mapping THEN type_mapping[tipo_completo]
                    ELSE IF tipo_completo # "" THEN tipo_completo ELSE tipo_base,
                    props)

\* lines 94-134: a display type with parentheses is kept, else the name is mapped
SqlTypeMapped(tipo_base, tipo_completo, props) ==
    IF Contains(tipo_completo, "(") /\ Contains(tipo_completo, ")") THEN tipo_completo
    ELSE SqlTypeWithSize(IF tipo_base \in DOMAIN type_mapping THEN type_mapping[tipo_base]
                         ELSE IF tipo_completo \in DOMAIN type_mapping THEN type_mapping[tipo_completo]
                         ELSE IF tipo_completo # "" THEN tipo_completo ELSE tipo_base,
                         props)

SqlTypeOfBase(tipo_base, props) ==
    SqlTypeMapped(tipo_base, IF props.tipo # "" THEN upper(props.tipo) ELSE tipo_base, props)

\* the base type name taken as the descriptor holds it, not upper-cased
GetSqlTypeBaseAsIs(props) == SqlTypeOfBase(props.tipo_base, props)
_get_sql_type(props) ==
    SqlTypeOfBase(IF props.tipo_base # "" THEN upper(props.tipo_base) ELSE "", props)

\* " DEFAULT <value>", the DEFAULT keyword of the catalog's source text dropped
DefaultClause(props) ==
    IF TruthyStr(props.default)
    THEN " DEFAULT " \o (IF startswith(upper(Val(props.default)), "DEFAULT ")
                         THEN From(Val(props.default), 8) ELSE Val(props.default))
    ELSE ""
NotNullClause(props) == IF props.nullable = "NO" THEN " NOT NULL" ELSE ""

\* one field definition of CREATE TABLE (lines 159-187)
FieldDef(campo, props) ==
    "    " \o campo \o " " \o _get_sql_type(props)
    \o (IF props.charset_info # "" THEN props.charset_info ELSE "")
    \o NotNullClause(props)
    \o DefaultClause(props)
    \o (IF props.computed = "SI" /\ TruthyStr(props.computed_source)
        THEN " COMPUTED BY ("
             \o (IF startswith(upper(Val(props.computed_source)), "COMPUTED BY ")
                 THEN From(Val(props.computed_source), 12) ELSE Val(props.computed_source))
             \o ")"
        ELSE "")

PrimaryKeySql(table_name, pk_fields) ==
    "ALTER TABLE " \o table_name \o " ADD CONSTRAINT PK_" \o table_name
    \o " PRIMARY KEY (" \o join(", ", pk_fields) \o ");\n"

\* the text returned without being appended to an accumulator
ReturnWithoutEmit(st, tipo, sql, destino) == [st |-> st, sql |-> sql]
\* every generate_* operator returns [st |-> the state after the call, sql |-> its return value]
EmitAndReturn(st, tipo, sql, destino) == [st |-> emit_sql(st, tipo, sql, destino), sql |-> sql]

\* a constraint statement emitted whatever the field list holds
GeneratePrimaryKeyAlways(st, table_name, pk_fields, destino) ==
    EmitAndReturn(st, "PRIMARY_KEY", PrimaryKeySql(table_name, pk_fields), destino)
generate_create_primary_key(st, table_name, pk_fields, destino) ==
    IF Len(pk_fields) > 0
    THEN EmitAndReturn(st, "PRIMARY_KEY", PrimaryKeySql(table_name, pk_fields), destino)
    ELSE [st |-> st, sql |-> ""]

CreateTableSql(table_name, campos) ==
    "CREATE TABLE " \o table_name \o " (\n"
    \o join(",\n", [i \in 1..Len(campos) |-> FieldDef(campos[i].key, campos[i].value)])
    \o "\n);\n"

\* lines 192-201: the primary key follows the table, its text joined to the result
\* the table's text returned without the text of its primary key
TableWithoutPrimaryKey(sql, r) == [st |-> r.st, sql |-> sql]
TableWithPrimaryKey(sql, r) == [st |-> r.st, sql |-> sql \o "\n" \o r.sql]
TableThenPrimaryKey(st, table_name, sql, pk, destino) ==
    IF Len(pk) > 0
    THEN TableWithPrimaryKey(sql, generate_create_primary_key(emit_sql(st, "TABLA", sql, destino),
                                                              table_name, pk, destino))
    ELSE EmitAndReturn(st, "TABLA", sql, destino)

generate_create_table(st, table_name, campos, conexion, destino) ==
    TableThenPrimaryKey(st, table_name, CreateTableSql(table_name, campos),
                        get_primary_keys(conexion, table_name), destino)

CreateFieldSql(table_name, campo, props) ==
    "ALTER TABLE " \o table_name \o " ADD " \o campo \o " " \o _get_sql_type(props)
    \o (IF props.charset_info # "" THEN props.charset_info ELSE " CHARACTER SET NONE COLLATE NONE")
    \o NotNullClause(props) \o DefaultClause(props) \o ";\n"

generate_create_field(st, table_name, campo, props, destino) ==
    EmitAndReturn(st, "CAMPO", CreateFieldSql(table_name, campo, props), destino)

\* the part of s before its first comma: s.split(',')[0]
RECURSIVE FirstOfSplit(_)
FirstOfSplit(s) ==
    IF Len(s) = 0 \/ Ch(s, 1) = "," THEN "" ELSE Ch(s, 1) \o FirstOfSplit(From(s, 1))

CreateIndexSql(table_name, index_name, index_info) ==
    LET name == IF startswith(index_name, "RDB$")
                THEN "IDX_" \o table_name \o "_" \o FirstOfSplit(index_info.fields)
                ELSE index_name
    IN "CREATE " \o (IF index_info.unique THEN "UNIQUE " ELSE "") \o "INDEX " \o name
       \o " ON " \o table_name \o " (" \o index_info.fields \o ");\n"

generate_create_index(st, table_name, index_name, index_info, destino) ==
    EmitAndReturn(st, "INDICE", CreateIndexSql(table_name, index_name, index_info), destino)

CreateForeignKeySql(table_name, fk_name, fk_info) ==
    "ALTER TABLE " \o table_name \o " ADD CONSTRAINT " \o fk_name \o " "
    \o "FOREIGN KEY (" \o join(", ", fk_info.fields) \o ") REFERENCES "
    \o fk_info.referenced_table \o " (" \o join(", ", fk_info.referenced_fields) \o ");\n"

generate_create_foreign_key(st, table_name, fk_name, fk_info, destino) ==
    EmitAndReturn(st, "FOREIGN_KEY", CreateForeignKeySql(table_name, fk_name, fk_info), destino)

trigger_types == <<"BEFORE INSERT", "AFTER INSERT", "BEFORE UPDATE", "AFTER UPDATE",
                   "BEFORE DELETE", "AFTER DELETE">>

CreateTriggerSql(trigger_name, trigger_info) ==
    LET name == IF startswith(trigger_name, "RDB$")
                THEN "TRG_" \o trigger_info.table \o "_" \o From(trigger_name, 4)
                ELSE trigger_name
        desc == IF trigger_info.type \in DOMAIN trigger_types
                THEN trigger_types[trigger_info.type]
                ELSE "/* Tipo: " \o ToString(trigger_info.type) \o " */"
    IN "CREATE TRIGGER " \o name \o " " \o (IF trigger_info.inactive # 0 THEN "INACTIVE " ELSE "")
       \o desc \o "\n" \o "FOR " \o trigger_info.table \o "\n" \o trigger_info.source \o "\n"

generate_create_trigger(st, trigger_name, trigger_info, destino) ==
    EmitAndReturn(st, "TRIGGER", CreateTriggerSql(trigger_name, trigger_info), destino)

CreateProcedureSql(procedure_name, procedure_info) ==
    "CREATE PROCEDURE "
    \o (IF startswith(procedure_name, "RDB$") THEN "SP_" \o From(procedure_name, 4) ELSE procedure_name)
    \o "\nAS\nBEGIN\n" \o procedure_info.source \o "\nEND;\n"

generate_create_procedure(st, procedure_name, procedure_info, destino) ==
    EmitAndReturn(st, "PROCEDIMIENTO", CreateProcedureSql(procedure_name, procedure_info), destino)

CreateViewSql(view_name, view_definition) ==
    "CREATE VIEW "
    \o (IF startswith(view_name, "RDB$") THEN "VW_" \o From(view_name, 4) ELSE view_name)
    \o " AS\n" \o view_definition \o ";\n"

generate_create_view(st, view_name, view_definition, destino) ==
    EmitAndReturn(st, "VISTA", CreateViewSql(view_name, view_definition), destino)

CreateGeneratorSql(generator_name, value) ==
    LET name == IF startswith(generator_name, "RDB$")
                THEN "GEN_" \o From(generator_name, 4) ELSE generator_name
    IN "CREATE GENERATOR " \o name \o ";\n"
       \o (IF ~IsNone(value) /\ Val(value) > 0
           THEN "SET GENERATOR " \o name \o " TO " \o ToString(Val(value)) \o ";\n" ELSE "")

generate_create_generator(st, generator_name, value, destino) ==
    EmitAndReturn(st, "GENERADOR", CreateGeneratorSql(generator_name, value), destino)

\* SQLGenerator.generate_alter_field, the method of the class: four parameters after self
AlterFieldSql(table_name, campo, props) ==
    "ALTER TABLE " \o table_name \o " ALTER COLUMN " \o campo \o " TYPE " \o _get_sql_type(props)
    \o (IF props.charset_info # "" THEN props.charset_info ELSE "")
    \o NotNullClause(props) \o DefaultClause(props) \o ";\n"

generate_alter_field(st, table_name, campo, props, destino) ==
    EmitAndReturn(st, "CAMPO", AlterFieldSql(table_name, campo, props), destino)


(***************************************************************************)
(* comparators.py                                                          *)
(***************************************************************************)
\* str() of the values the comparators put into the detail columns
PyBool(b) == IF b THEN "True" ELSE "False"
PyList(seq) == "[" \o join(", ", [i \in 1..Len(seq) |-> "'" \o seq[i] \o "'"]) \o "]"
StrIndex(info) == "{'unique': " \o PyBool(info.unique) \o ", 'fields': '" \o info.fields \o "'}"
StrForeignKey(fk) ==
    "{'fields': " \o PyList(fk.fields) \o ", 'referenced_table': '" \o fk.referenced_table
    \o "', 'referenced_fields': " \o PyList(fk.referenced_fields)
    \o ", 'update_rule': '" \o fk.update_rule \o "', 'delete_rule': '" \o fk.delete_rule \o "'}"
StrTrigger(tr) ==
    "{'type': " \o ToString(tr.type) \o ", 'source': '" \o tr.source \o "', 'table': '" \o tr.table
    \o "', 'sequence': " \o ToString(tr.sequence) \o ", 'inactive': " \o ToString(tr.inactive) \o "}"
StrProcedure(pr) == "{'source': '" \o pr.source \o "'}"

Row(hoja, nombre, estatus, detalle1, detalle2, sql_bd1, sql_bd2, diferencia) ==
    [hoja |-> hoja, nombre |-> nombre, estatus |-> estatus, detalle1 |-> detalle1,
     detalle2 |-> detalle2, sql_bd1 |-> sql_bd1, sql_bd2 |-> sql_bd2, diferencia |-> diferencia]

agregar_fila_solo_diferencias(st, hoja, nombre, estatus, detalle1, detalle2, sql_bd1, sql_bd2, diferencia) ==
    IF Contains(estatus, "DIFERENTE") \/ Contains(estatus, "NO EXISTE")
    THEN [st EXCEPT !.reporte = Append(@, Row(hoja, nombre, estatus, detalle1, detalle2,
                                              sql_bd1, sql_bd2, diferencia))]
    ELSE st

\* the record of an object that one side lacks: status, detail and statement on
\* the columns of the side that has it.  g is the result of the generate_* call.
FilaSolo(g, hoja, nombre, detalle, destino) ==
    IF destino = "BD1"
    THEN agregar_fila_solo_diferencias(g.st, hoja, nombre, "NO EXISTE EN BD2", detalle, "", g.sql, "", "")
    ELSE agregar_fila_solo_diferencias(g.st, hoja, nombre, "NO EXISTE EN BD1", "", detalle, "", g.sql, "")

\* ---- comparar_tablas -------------------------------------------------
RECURSIVE TablasSolo(_, _, _, _)
TablasSolo(st, con, names, destino) ==
    IF Len(names) = 0 THEN st
    ELSE TablasSolo(FilaSolo(generate_create_table(st, names[1], get_fields(con, names[1]), con, destino),
                             "Tablas", names[1], names[1], destino),
                    con, Tail(names), destino)

CompararTablas(st, con1, con2, t1, t2) ==
    TablasSolo(TablasSolo(st, con1, sorted(t1 \ t2), "BD1"), con2, sorted(t2 \ t1), "BD2")

comparar_tablas(st, con1, con2) ==
    CompararTablas(st, con1, con2, Range(get_tables(con1)), Range(get_tables(con2)))

\* ---- comparar_campos_tabla -------------------------------------------
DetalleCampo(props) ==
    "Tipo: " \o props.tipo \o ", Nullable: " \o props.nullable
    \o (IF TruthyStr(props.default) THEN ", Default: " \o Val(props.default) ELSE "")

RECURSIVE CamposSolo(_, _, _, _, _)
CamposSolo(st, tabla, f, names, destino) ==
    IF Len(names) = 0 THEN st
    ELSE CamposSolo(FilaSolo(generate_create_field(st, tabla, names[1], Item(f, names[1]), destino),
                             "Campos_" \o tabla, names[1], DetalleCampo(Item(f, names[1])), destino),
                    tabla, f, Tail(names), destino)

props_comparables == <<"tipo", "nullable", "default", "longitud", "precision", "escala">>

\* str(props.get(key)) for the compared properties
PropStr(props, key) ==
    CASE key = "tipo" -> props.tipo
      [] key = "nullable" -> props.nullable
      [] key = "default" -> StrOptStr(props.default)
      [] key = "longitud" -> StrOptInt(props.longitud)
      [] key = "precision" -> StrOptInt(props.precision)
      [] key = "escala" -> StrOptInt(props.escala)

\* whether the loop of lines 129-144 lists `key` as a difference
PropDiffers(p1, p2, key) ==
    /\ upper(strip(PropStr(p1, key))) # upper(strip(PropStr(p2, key)))
    /\ key = "tipo" => upper(p1.tipo_base) # upper(p2.tipo_base)

\* the list diferencias of lines 128-144, for the properties from position i on
RECURSIVE DifferencesFrom(_, _, _)
DifferencesFrom(p1, p2, i) ==
    IF i > Len(props_comparables) THEN << >>
    ELSE (IF PropDiffers(p1, p2, props_comparables[i])
          THEN <<props_comparables[i] \o ": " \o PropStr(p1, props_comparables[i])
                 \o " vs " \o PropStr(p2, props_comparables[i])>>
          ELSE << >>)
         \o DifferencesFrom(p1, p2, i + 1)
FieldDifferences(p1, p2) == DifferencesFrom(p1, p2, 1)

\* The call of lines 153 and 156 passes AlterFieldArgs arguments to
\* SQLGenerator.generate_alter_field, which takes AlterFieldParams: Python raises
\* TypeError before the method body runs.
AlterFieldArgs == 5
AlterFieldParams == 4
AlterFieldTypeError ==
    "SQLGenerator.generate_alter_field() takes " \o ToString(AlterFieldParams + 1)
    \o " positional arguments but " \o ToString(AlterFieldArgs + 1) \o " were given"

\* lines 150-164: sql_bd1 from the attributes of BD2, sql_bd2 from those of BD1
FilaCampoDiferente(g1, g2, tabla, c, p1, p2) ==
    agregar_fila_solo_diferencias(g2.st, "Campos_" \o tabla, c, "DIFERENTE",
        "Tipo: " \o p1.tipo \o ", Nullable: " \o p1.nullable,
        "Tipo: " \o p2.tipo \o ", Nullable: " \o p2.nullable,
        g1.sql, g2.sql, join("; ", FieldDifferences(p1, p2)))
AlterBoth(g1, tabla, c, p1, p2) ==
    FilaCampoDiferente(g1, generate_alter_field(g1.st, tabla, c, p1, "BD2"), tabla, c, p1, p2)
CampoDiferente(st, tabla, c, p1, p2) ==
    IF AlterFieldArgs # AlterFieldParams
    THEN [st EXCEPT !.exc = AlterFieldTypeError]
    ELSE AlterBoth(generate_alter_field(st, tabla, c, p2, "BD1"), tabla, c, p1, p2)

CampoComun(st, tabla, c, p1, p2) ==
    IF Len(FieldDifferences(p1, p2)) > 0 THEN CampoDiferente(st, tabla, c, p1, p2) ELSE st

RECURSIVE CamposComunes(_, _, _, _, _)
CamposComunes(st, tabla, f1, f2, names) ==
    IF Len(names) = 0 \/ st.exc # "" THEN st
    ELSE CamposComunes(CampoComun(st, tabla, names[1], Item(f1, names[1]), Item(f2, names[1])),
                       tabla, f1, f2, Tail(names))

CompararCampos(st, tabla, f1, f2) ==
    CamposComunes(CamposSolo(CamposSolo(st, tabla, f1, sorted(KeySet(f1) \ KeySet(f2)), "BD1"),
                             tabla, f2, sorted(KeySet(f2) \ KeySet(f1)), "BD2"),
                  tabla, f1, f2, sorted(KeySet(f1) \cap KeySet(f2)))

comparar_campos_tabla(st, con1, con2, tabla) ==
    CompararCampos(st, tabla, get_fields(con1, tabla), get_fields(con2, tabla))

\* ---- comparar_indices_pk ---------------------------------------------
\* the loops that create the indexes `names` of one side (lines 182-188, 208-210, 221-223)
RECURSIVE IndicesSolo(_, _, _, _, _)
IndicesSolo(st, tabla, idxs, names, destino) ==
    IF Len(names) = 0 THEN st
    ELSE IndicesSolo(FilaSolo(generate_create_index(st, tabla, names[1], Item(idxs, names[1]), destino),
                              "Indices_" \o tabla, names[1], StrIndex(Item(idxs, names[1])), destino),
                     tabla, idxs, Tail(names), destino)

\* a comparison that reports every common index
IndiceComunSiempre(st, tabla, idx, a, b) ==
    agregar_fila_solo_diferencias(st, "Indices_" \o tabla, idx, "DIFERENTE",
                                  StrIndex(a), StrIndex(b), "", "", "")

IndiceComun(st, tabla, idx, a, b) ==
    IF a # b
    THEN agregar_fila_solo_diferencias(st, "Indices_" \o tabla, idx, "DIFERENTE",
                                       StrIndex(a), StrIndex(b), "", "", "")
    ELSE st

RECURSIVE IndicesComunes(_, _, _, _, _)
IndicesComunes(st, tabla, i1, i2, names) ==
    IF Len(names) = 0 THEN st
    ELSE IndicesComunes(IndiceComun(st, tabla, names[1], Item(i1, names[1]), Item(i2, names[1])),
                        tabla, i1, i2, Tail(names))

CompararIndices(st, tabla, i1, i2) ==
    IndicesComunes(IndicesSolo(IndicesSolo(st, tabla, i1, sorted(KeySet(i1) \ KeySet(i2)), "BD1"),
                               tabla, i2, sorted(KeySet(i2) \ KeySet(i1)), "BD2"),
                   tabla, i1, i2, sorted(KeySet(i1) \cap KeySet(i2)))

\* lines 194-201: the primary keys of a table that exists in both databases
FilaPkDiferente(g1, g2, tabla, p1, p2) ==
    agregar_fila_solo_diferencias(g2.st, "PK_" \o tabla,
        IF Len(p1) > 0 THEN join(",", p1) ELSE "(VACIA)", "DIFERENTE",
        PyList(p1), PyList(p2), g1.sql, g2.sql, "")
\* lines 199-200: the generator is called for a side only if its key is not empty
PrimaryKeyIfAny(st, tabla, p, destino) ==
    IF Len(p) > 0 THEN generate_create_primary_key(st, tabla, p, destino) ELSE [st |-> st, sql |-> ""]
PkBoth(g1, tabla, p1, p2) ==
    FilaPkDiferente(g1, PrimaryKeyIfAny(g1.st, tabla, p2, "BD2"), tabla, p1, p2)
CompararPk(st, tabla, p1, p2) ==
    IF p1 # p2 THEN PkBoth(PrimaryKeyIfAny(st, tabla, p1, "BD1"), tabla, p1, p2) ELSE st

\* lines 177-201: the table exists in both databases
IndicesPkAmbas(st, con1, con2, tabla) ==
    CompararPk(CompararIndices(st, tabla, get_indexes(con1, tabla), get_indexes(con2, tabla)),
               tabla, get_primary_keys(con1, tabla), get_primary_keys(con2, tabla))

\* lines 203-227: the table exists in one database only
PkSolo(st, tabla, p, destino) ==
    IF Len(p) > 0
    THEN FilaSolo(generate_create_primary_key(st, tabla, p, destino),
                  "PK_" \o tabla, join(",", p), PyList(p), destino)
    ELSE st
\* a table of one database only contributing nothing
IndicesPkSoloOmitida(st, con, tabla, destino) == st
IndicesDe(st, tabla, i, destino) == IndicesSolo(st, tabla, i, keys(i), destino)
IndicesPkSolo(st, con, tabla, destino) ==
    PkSolo(IndicesDe(st, tabla, get_indexes(con, tabla), destino),
           tabla, get_primary_keys(con, tabla), destino)

IndicesPkTabla(st, con1, con2, tabla, existe_en_bd1, existe_en_bd2) ==
    IF existe_en_bd1 /\ existe_en_bd2 THEN IndicesPkAmbas(st, con1, con2, tabla)
    ELSE IF existe_en_bd1 /\ ~existe_en_bd2 THEN IndicesPkSolo(st, con1, tabla, "BD1")
    ELSE IF existe_en_bd2 /\ ~existe_en_bd1 THEN IndicesPkSolo(st, con2, tabla, "BD2")
    ELSE st

RECURSIVE IndicesPkTablas(_, _, _, _, _, _)
IndicesPkTablas(st, con1, con2, tablas_bd1, tablas_bd2, tablas) ==
    IF Len(tablas) = 0 THEN st
    ELSE IndicesPkTablas(IndicesPkTabla(st, con1, con2, tablas[1],
                                        tablas[1] \in tablas_bd1, tablas[1] \in tablas_bd2),
                         con1, con2, tablas_bd1, tablas_bd2, Tail(tablas))

CompararIndicesPk(st, con1, con2, tablas_bd1, tablas_bd2) ==
    IndicesPkTablas(st, con1, con2, tablas_bd1, tablas_bd2, sorted(tablas_bd1 \cup tablas_bd2))

comparar_indices_pk(st, con1, con2) ==
    CompararIndicesPk(st, con1, con2, Range(get_tables(con1)), Range(get_tables(con2)))

\* ---- comparar_foreign_keys -------------------------------------------
DetalleFk(fk) == "REFERENCES " \o fk.referenced_table \o "(" \o join(", ", fk.referenced_fields) \o ")"

RECURSIVE FkSolo(_, _, _, _, _)
FkSolo(st, tabla, fks, names, destino) ==
    IF Len(names) = 0 THEN st
    ELSE FkSolo(FilaSolo(generate_create_foreign_key(st, tabla, names[1], Item(fks, names[1]), destino),
                         "FK_" \o tabla, names[1], DetalleFk(Item(fks, names[1])), destino),
                tabla, fks, Tail(names), destino)

FkComun(st, tabla, fk, a, b) ==
    IF a # b
    THEN agregar_fila_solo_diferencias(st, "FK_" \o tabla, fk, "DIFERENTE",
                                       StrForeignKey(a), StrForeignKey(b), "", "", "")
    ELSE st

RECURSIVE FkComunes(_, _, _, _, _)
FkComunes(st, tabla, fk1, fk2, names) ==
    IF Len(names) = 0 THEN st
    ELSE FkComunes(FkComun(st, tabla, names[1], Item(fk1, names[1]), Item(fk2, names[1])),
                   tabla, fk1, fk2, Tail(names))

CompararFk(st, tabla, fk1, fk2) ==
    FkComunes(FkSolo(FkSolo(st, tabla, fk1, sorted(KeySet(fk1) \ KeySet(fk2)), "BD1"),
                     tabla, fk2, sorted(KeySet(fk2) \ KeySet(fk1)), "BD2"),
              tabla, fk1, fk2, sorted(KeySet(fk1) \cap KeySet(fk2)))

comparar_foreign_keys(st, con1, con2, tabla) ==
    CompararFk(st, tabla, get_foreign_keys(con1, tabla), get_foreign_keys(con2, tabla))

\* ---- comparar_triggers -----------------------------------------------
RECURSIVE TriggersSolo(_, _, _, _)
TriggersSolo(st, tr, names, destino) ==
    IF Len(names) = 0 THEN st
    ELSE TriggersSolo(FilaSolo(generate_create_trigger(st, names[1], Item(tr, names[1]), destino),
                               "Triggers", names[1], Item(tr, names[1]).table, destino),
                      tr, Tail(names), destino)

\* a changed trigger reported with the statement that creates it as it is in BD1
TriggerComunConSql(st, t, a, b) ==
    IF a # b
    THEN agregar_fila_solo_diferencias(generate_create_trigger(st, t, a, "BD1").st, "Triggers", t,
                                       "DIFERENTE", StrTrigger(a), StrTrigger(b),
                                       generate_create_trigger(st, t, a, "BD1").sql, "", "")
    ELSE st
TriggerComun(st, t, a, b) ==
    IF a # b
    THEN agregar_fila_solo_diferencias(st, "Triggers", t, "DIFERENTE", StrTrigger(a), StrTrigger(b), "", "", "")
    ELSE st

RECURSIVE TriggersComunes(_, _, _, _)
TriggersComunes(st, tr1, tr2, names) ==
    IF Len(names) = 0 THEN st
    ELSE TriggersComunes(TriggerComun(st, names[1], Item(tr1, names[1]), Item(tr2, names[1])),
                         tr1, tr2, Tail(names))

CompararTriggers(st, tr1, tr2) ==
    TriggersComunes(TriggersSolo(TriggersSolo(st, tr1, sorted(KeySet(tr1) \ KeySet(tr2)), "BD1"),
                                 tr2, sorted(KeySet(tr2) \ KeySet(tr1)), "BD2"),
                    tr1, tr2, sorted(KeySet(tr1) \cap KeySet(tr2)))

comparar_triggers(st, con1, con2) == CompararTriggers(st, get_triggers(con1), get_triggers(con2))

\* ---- comparar_procedimientos -----------------------------------------
RECURSIVE ProcedimientosSolo(_, _, _, _)
ProcedimientosSolo(st, pr, names, destino) ==
    IF Len(names) = 0 THEN st
    ELSE ProcedimientosSolo(FilaSolo(generate_create_procedure(st, names[1], Item(pr, names[1]), destino),
                                     "Procedimientos", names[1], names[1], destino),
                            pr, Tail(names), destino)

ProcedimientoComun(st, p, a, b) ==
    IF a # b
    THEN agregar_fila_solo_diferencias(st, "Procedimientos", p, "DIFERENTE",
                                       StrProcedure(a), StrProcedure(b), "", "", "")
    ELSE st

RECURSIVE ProcedimientosComunes(_, _, _, _)
ProcedimientosComunes(st, pr1, pr2, names) ==
    IF Len(names) = 0 THEN st
    ELSE ProcedimientosComunes(ProcedimientoComun(st, names[1], Item(pr1, names[1]), Item(pr2, names[1])),
                               pr1, pr2, Tail(names))

CompararProcedimientos(st, pr1, pr2) ==
    ProcedimientosComunes(
        ProcedimientosSolo(ProcedimientosSolo(st, pr1, sorted(KeySet(pr1) \ KeySet(pr2)), "BD1"),
                           pr2, sorted(KeySet(pr2) \ KeySet(pr1)), "BD2"),
        pr1, pr2, sorted(KeySet(pr1) \cap KeySet(pr2)))

comparar_procedimientos(st, con1, con2) ==
    CompararProcedimientos(st, get_procedures(con1), get_procedures(con2))

\* ---- comparar_vistas -------------------------------------------------
\* lines 291 and 296: the call of get_view_definition, logged
ReadViewDefinition(st, con, v) == [st EXCEPT !.vdef = Append(@, [con |-> con, view |-> v])]
RECURSIVE VistasSolo(_, _, _, _)
VistasSolo(st, con, names, destino) ==
    IF Len(names) = 0 THEN st
    ELSE VistasSolo(FilaSolo(generate_create_view(ReadViewDefinition(st, con, names[1]), names[1],
                                                  get_view_definition(con, names[1]), destino),
                             "Vistas", names[1], names[1], destino),
                    con, Tail(names), destino)

\* a comparison that also reads and compares the sources of the views on both sides
RECURSIVE VistasComunes(_, _, _, _)
VistasComunes(st, con1, con2, names) ==
    IF Len(names) = 0 THEN st
    ELSE VistasComunes(
             agregar_fila_solo_diferencias(
                 ReadViewDefinition(ReadViewDefinition(st, con1, names[1]), con2, names[1]),
                 "Vistas", names[1],
                 IF get_view_definition(con1, names[1]) # get_view_definition(con2, names[1])
                 THEN "DIFERENTE" ELSE "IGUAL",
                 names[1], names[1], "", "", ""),
             con1, con2, Tail(names))
CompararVistasComunes(st, con1, con2, v1, v2) ==
    VistasComunes(VistasSolo(VistasSolo(st, con1, sorted(v1 \ v2), "BD1"), con2, sorted(v2 \ v1), "BD2"),
                  con1, con2, sorted(v1 \cap v2))
CompararVistas(st, con1, con2, v1, v2) ==
    VistasSolo(VistasSolo(st, con1, sorted(v1 \ v2), "BD1"), con2, sorted(v2 \ v1), "BD2")

comparar_vistas(st, con1, con2) ==
    CompararVistas(st, con1, con2, Range(get_views(con1)), Range(get_views(con2)))

\* ---- comparar_generadores --------------------------------------------
\* try: v = _get_generator_value(con, g)  except Exception: v = None
ReadGenerator(con, g) == IF GeneratorValueRaises(con, g) THEN None ELSE _get_generator_value(con, g)
\* a provider call that raised: the function, its arguments, and the number of
\* comparator calls made when it raised (the raising comparator included)
ProviderError(fn, con, arg, calls) == [fn |-> fn, con |-> con, arg |-> arg, calls |-> calls]
\* the read of ReadGenerator noted in the state when it raised
NoteRead(st, con, g) ==
    IF GeneratorValueRaises(con, g)
    THEN [st EXCEPT !.perr = Append(@, ProviderError("_get_generator_value", con, g, Len(st.inv)))]
    ELSE st

GeneradorSolo(st, g, v, destino) ==
    FilaSolo(generate_create_generator(st, g, v, destino), "Generadores", g, StrOptInt(v), destino)

RECURSIVE GeneradoresSolo(_, _, _, _)
GeneradoresSolo(st, con, names, destino) ==
    IF Len(names) = 0 THEN st
    ELSE GeneradoresSolo(GeneradorSolo(NoteRead(st, con, names[1]), names[1],
                                       ReadGenerator(con, names[1]), destino),
                         con, Tail(names), destino)

\* a common generator reported only when both values were read
GeneradorComunLeidos(st, g, v1, v2) ==
    IF ~IsNone(v1) /\ ~IsNone(v2) /\ v1 # v2
    THEN agregar_fila_solo_diferencias(st, "Generadores", g, "DIFERENTE",
                                       StrOptInt(v1), StrOptInt(v2), "", "", "")
    ELSE st
GeneradorComun(st, g, v1, v2) ==
    IF v1 # v2
    THEN agregar_fila_solo_diferencias(st, "Generadores", g, "DIFERENTE",
                                       StrOptInt(v1), StrOptInt(v2), "", "", "")
    ELSE st

RECURSIVE GeneradoresComunes(_, _, _, _)
GeneradoresComunes(st, con1, con2, names) ==
    IF Len(names) = 0 THEN st
    ELSE GeneradoresComunes(GeneradorComun(NoteRead(NoteRead(st, con1, names[1]), con2, names[1]),
                                           names[1], ReadGenerator(con1, names[1]),
                                           ReadGenerator(con2, names[1])),
                            con1, con2, Tail(names))

CompararGeneradores(st, con1, con2, g1, g2) ==
    GeneradoresComunes(GeneradoresSolo(GeneradoresSolo(st, con1, sorted(g1 \ g2), "BD1"),
                                       con2, sorted(g2 \ g1), "BD2"),
                       con1, con2, sorted(g1 \cap g2))

comparar_generadores(st, con1, con2) ==
    CompararGeneradores(st, con1, con2, Range(get_generators(con1)), Range(get_generators(con2)))


(***************************************************************************)
(* exporters.py                                                            *)
(***************************************************************************)
\* s.split("\n")
RECURSIVE SplitLines(_)
SplitLines(s) ==
    IF ~Contains(s, "\n") THEN <<s>>
    ELSE LET i == CHOOSE k \in 1..Len(s) : Ch(s, k) = "\n" /\ \A j \in 1..(k - 1) : Ch(s, j) # "\n"
         IN <<SubSeq(s, 1, i - 1)>> \o SplitLines(From(s, i))

\* s.replace(old, new)
RECURSIVE Replace(_, _, _)
Replace(s, old, new) ==
    IF Len(s) < Len(old) THEN s
    ELSE IF startswith(s, old) THEN new \o Replace(From(s, Len(old)), old, new)
    ELSE Ch(s, 1) \o Replace(From(s, 1), old, new)

_limpiar_sql(sql_completo) ==
    IF sql_completo = "" THEN ""
    ELSE IF Contains(sql_completo, "CREATE ") \/ Contains(sql_completo, "ALTER ")
            \/ Contains(sql_completo, "SET ")
    THEN LET lines == SplitLines(sql_completo)
             stripped == [i \in 1..Len(lines) |-> strip(lines[i])]
             Keep(line) == /\ line # ""
                           /\ ~startswith(line, "/* Tabla:")
                           /\ ~startswith(line, "/* Primary keys")
                           /\ ~startswith(line, "Tipo:")
                           /\ ~startswith(line, "Nullable:")
                           /\ ~startswith(line, "Default:")
         IN join("\n", SelectSeq(stripped, Keep))
    ELSE strip(sql_completo)

mapeo_tipos == <<[key |-> "Tablas", value |-> "tablas"], [key |-> "Campos_", value |-> "campos"],
                 [key |-> "Indices_", value |-> "indices"], [key |-> "PK_", value |-> "pk"],
                 [key |-> "FK_", value |-> "fk"], [key |-> "Triggers", value |-> "triggers"],
                 [key |-> "Procedimientos", value |-> "procedimientos"],
                 [key |-> "Vistas", value |-> "vistas"], [key |-> "Generadores", value |-> "generadores"]>>

_filtrar_filas_por_opciones(filas, opciones) ==
    LET Matches(fila) == {i \in 1..Len(mapeo_tipos) : startswith(fila.hoja, mapeo_tipos[i].key)}
        First(fila) == CHOOSE i \in Matches(fila) : \A j \in Matches(fila) : i <= j
        Incluir(fila) == IF Matches(fila) = {} THEN TRUE ELSE opciones[mapeo_tipos[First(fila)].value]
    IN SelectSeq(filas, Incluir)

\* CREATE OR ALTER for procedures, views and triggers (lines 134-137, 188-191, 202-205)
CreateOrAlter(hoja, sql_limpio) ==
    IF \E tipo \in {"Procedimientos", "Vistas", "Triggers"} : Contains(hoja, tipo)
    THEN Replace(Replace(Replace(sql_limpio, "CREATE PROCEDURE", "CREATE OR ALTER PROCEDURE"),
                         "CREATE VIEW", "CREATE OR ALTER VIEW"),
                 "CREATE TRIGGER", "CREATE OR ALTER TRIGGER")
    ELSE sql_limpio

\* what one row appends to todos_scripts, given the statement chosen for it
ScriptDeFila(hoja, sql_usar) ==
    IF strip(sql_usar) # "" /\ _limpiar_sql(sql_usar) # ""
    THEN <<CreateOrAlter(hoja, _limpiar_sql(sql_usar))>>
    ELSE << >>

\* todos_scripts of _exportar_scripts_bd1: what BD1 lacks
RECURSIVE _exportar_scripts_bd1(_)
_exportar_scripts_bd1(filas) ==
    IF Len(filas) = 0 THEN << >>
    ELSE (IF Contains(filas[1].estatus, "NO EXISTE EN BD1")
          THEN ScriptDeFila(filas[1].hoja, filas[1].sql_bd2) ELSE << >>)
         \o _exportar_scripts_bd1(Tail(filas))

\* todos_scripts of _exportar_scripts_bd2: what BD2 lacks, and the modifications
RECURSIVE _exportar_scripts_bd2(_)
_exportar_scripts_bd2(filas) ==
    IF Len(filas) = 0 THEN << >>
    ELSE (IF Contains(filas[1].estatus, "NO EXISTE EN BD2")
          THEN ScriptDeFila(filas[1].hoja, filas[1].sql_bd1)
          ELSE IF Contains(filas[1].estatus, "DIFERENTE")
          THEN ScriptDeFila(filas[1].hoja, filas[1].sql_bd1)
          ELSE << >>)
         \o _exportar_scripts_bd2(Tail(filas))

\* _exportar_txt_sql: the script accumulated for BD1 goes under the heading for BD2
_exportar_txt_sql(sql_bd1, sql_bd2) == [sql_para_bd2 |-> sql_bd1, sql_para_bd1 |-> sql_bd2]

\* the three files, by content (the names carry a timestamp)
ExportFiles(filas_filtradas, sql_bd1, sql_bd2) ==
    [scripts_bd1 |-> _exportar_scripts_bd1(filas_filtradas),
     scripts_bd2 |-> _exportar_scripts_bd2(filas_filtradas),
     sql_completo |-> _exportar_txt_sql(sql_bd1, sql_bd2)]
exportar_solo_diferencias(filas, sql_bd1, sql_bd2, opciones_seleccionadas) ==
    ExportFiles(_filtrar_filas_por_opciones(filas, opciones_seleccionadas), sql_bd1, sql_bd2)

\* main_app.py, _build_ui: the window before any user action: the compare button
\* enabled, the two path fields empty, no worker thread, no signal waiting for its slot
NoApp == [btn_compare |-> TRUE, ed_bd |-> FALSE, threads |-> 0, queued |-> << >>, launched |-> 0]

(***************************************************************************)
(* The state of a run as the record the comparators thread.                *)
(***************************************************************************)
St == [reporte |-> diferencias, bd1 |-> sql_objects_bd1, bd2 |-> sql_objects_bd2,
       sig |-> signals, exc |-> raised, perr |-> provider_errors, inv |-> invoked,
       emi |-> emitted, vdef |-> view_reads]
EmptySt == [reporte |-> << >>, bd1 |-> EmptyAccumulator, bd2 |-> EmptyAccumulator,
            sig |-> << >>, exc |-> "", perr |-> << >>, inv |-> << >>, emi |-> << >>,
            vdef |-> << >>]
SetSt(st) ==
    /\ diferencias' = st.reporte
    /\ sql_objects_bd1' = st.bd1
    /\ sql_objects_bd2' = st.bd2
    /\ signals' = st.sig
    /\ raised' = st.exc
    /\ provider_errors' = st.perr
    /\ invoked' = st.inv
    /\ emitted' = st.emi
    /\ view_reads' = st.vdef

\* a comparator call: the function and, for the table-scoped ones, the table
Call(f, tabla) == [f |-> f, tabla |-> tabla]

ApplyCall(st, con1, con2, call) ==
    LET st0 == [st EXCEPT !.inv = Append(@, call)]
    IN CASE call.f = "comparar_tablas" -> comparar_tablas(st0, con1, con2)
         [] call.f = "comparar_campos_tabla" -> comparar_campos_tabla(st0, con1, con2, call.tabla)
         [] call.f = "comparar_indices_pk" -> comparar_indices_pk(st0, con1, con2)
         [] call.f = "comparar_foreign_keys" -> comparar_foreign_keys(st0, con1, con2, call.tabla)
         [] call.f = "comparar_triggers" -> comparar_triggers(st0, con1, con2)
         [] call.f = "comparar_procedimientos" -> comparar_procedimientos(st0, con1, con2)
         [] call.f = "comparar_vistas" -> comparar_vistas(st0, con1, con2)
         [] call.f = "comparar_generadores" -> comparar_generadores(st0, con1, con2)

\* calls made one after the other; an exception ends the sequence
RECURSIVE RunCalls(_, _, _, _)
RunCalls(st, con1, con2, calls) ==
    IF Len(calls) = 0 \/ st.exc # "" THEN st
    ELSE RunCalls(ApplyCall(st, con1, con2, calls[1]), con1, con2, Tail(calls))

(***************************************************************************)
(* worker_thread.py: run_comparison and _ejecutar_comparaciones            *)
(***************************************************************************)
OptionNames == {"tablas", "campos", "indices", "pk", "fk", "triggers", "procedimientos",
                "vistas", "generadores", "generar_sql"}
\* how many checkboxes the user toggles away from all checked or from none checked
MaxToggled == 2
Checked(o) == {k \in OptionNames : o[k]}
\* main_app.py, _on_tablas_toggle: unchecking tablas unchecks campos, pk and fk
OptionSets == {o \in [OptionNames -> BOOLEAN] :
                  /\ ~o["tablas"] => ~o["campos"] /\ ~o["pk"] /\ ~o["fk"]
                  /\ \/ Cardinality(Checked(o)) <= MaxToggled
                     \/ Cardinality(OptionNames \ Checked(o)) <= MaxToggled}

\* sum(1 for opcion in options.values() if opcion)
opciones_activas(opts) == Cardinality({k \in OptionNames : opts[k]})

Blocks == <<"tablas", "campos", "indices", "pk", "fk", "triggers", "procedimientos",
            "vistas", "generadores">>
BlockIndex(b) == CHOOSE i \in 1..Len(Blocks) : Blocks[i] = b

\* the condition of each if-block of _ejecutar_comparaciones
BlockEnabled(b, opts) ==
    CASE b = "campos" -> opts["campos"] /\ opts["tablas"]
      [] b = "fk" -> opts["fk"] /\ opts["tablas"]
      [] OTHER -> opts[b]

BlockMessage(b) ==
    CASE b = "tablas" -> "Comparando tablas..."
      [] b = "campos" -> "Comparando campos..."
      [] b = "indices" -> "Comparando indices..."
      [] b = "pk" -> "Comparando primary keys..."
      [] b = "fk" -> "Comparando llaves foraneas..."
      [] b = "triggers" -> "Comparando triggers..."
      [] b = "procedimientos" -> "Comparando procedimientos..."
      [] b = "vistas" -> "Comparando vistas..."
      [] b = "generadores" -> "Comparando generadores..."

tablas_comunes(con1, con2) == sorted(Range(get_tables(con1)) \cap Range(get_tables(con2)))

\* the comparator calls of each if-block, in order
BlockCalls(b, con1, con2) ==
    CASE b = "tablas" -> <<Call("comparar_tablas", "")>>
      [] b = "campos" -> [i \in 1..Len(tablas_comunes(con1, con2)) |->
                             Call("comparar_campos_tabla", tablas_comunes(con1, con2)[i])]
      [] b = "indices" -> <<Call("comparar_indices_pk", "")>>
      [] b = "pk" -> <<Call("comparar_indices_pk", "")>>
      [] b = "fk" -> [i \in 1..Len(tablas_comunes(con1, con2)) |->
                         Call("comparar_foreign_keys", tablas_comunes(con1, con2)[i])]
      [] b = "triggers" -> <<Call("comparar_triggers", "")>>
      [] b = "procedimientos" -> <<Call("comparar_procedimientos", "")>>
      [] b = "vistas" -> <<Call("comparar_vistas", "")>>
      [] b = "generadores" -> <<Call("comparar_generadores", "")>>

\* the first metadata-provider call a comparator makes
FirstProviderCall(call) ==
    CASE call.f \in {"comparar_tablas", "comparar_indices_pk"} -> "get_tables"
      [] call.f = "comparar_campos_tabla" -> "get_fields"
      [] call.f = "comparar_foreign_keys" -> "get_foreign_keys"
      [] call.f = "comparar_triggers" -> "get_triggers"
      [] call.f = "comparar_procedimientos" -> "get_procedures"
      [] call.f = "comparar_vistas" -> "get_views"
      [] call.f = "comparar_generadores" -> "get_generators"

\* the first if-block after position i whose condition holds, else the export
NextBlock(i, opts) ==
    IF \E j \in (i + 1)..Len(Blocks) : BlockEnabled(Blocks[j], opts)
    THEN Blocks[CHOOSE j \in (i + 1)..Len(Blocks) :
                    BlockEnabled(Blocks[j], opts) /\ \A k \in (i + 1)..(j - 1) : ~BlockEnabled(Blocks[k], opts)]
    ELSE "exportar"

\* an except clause that reports the error and the end of the run as well
ExceptHandlerAndFinished(sig, e) ==
    sig \o <<Signal("error", e \o "\n\n" \o "Traceback (most recent call last):\n" \o e, ""),
             Signal("finished", "", "")>>
\* except Exception as e: worker_signals.error.emit(f"{str(e)}\n\n{tb}")
ExceptHandler(sig, e) ==
    Append(sig, Signal("error", e \o "\n\n" \o "Traceback (most recent call last):\n" \o e, ""))
\* where run_comparison continues after if-block i: an exception leaves the try
\* body, otherwise the next if-block (or the export) follows
\* the run going on after if-block i whatever was raised in it
PcAfterUnguarded(exc, i, opts) == NextBlock(i, opts)
PcAfter(exc, i, opts) == IF exc # "" THEN "done" ELSE NextBlock(i, opts)

_construir_mensaje_final == "Archivos TXT generados:\nScripts BD1: scripts_BD1\nScripts BD2: scripts_BD2\nSQL Completo: sql_completo"


NotConnected == 0
NoFiles == << >>

\* the databases the two paths of a run can name
InitCatalog == catalog = [con \in Connections |-> Catalog(con)]

Init ==
    /\ InitCatalog
    /\ c1 = NotConnected
    /\ c2 = NotConnected
    /\ options \in OptionSets
    /\ pc = "connect"
    /\ step = 0
    /\ diferencias = << >>
    /\ sql_objects_bd1 = EmptyAccumulator
    /\ sql_objects_bd2 = EmptyAccumulator
    /\ signals = << >>
    /\ invoked = << >>
    /\ raised = ""
    /\ provider_errors = << >>
    /\ files = NoFiles
    /\ emitted = << >>
    /\ view_reads = << >>
    /\ runs = << >>
    /\ app = NoApp
    /\ generated = << >>

\* run_comparison, lines 36-39: both connections are opened
Connect ==
    /\ pc = "connect"
    /\ \E a \in Connections, b \in Connections :
          /\ c1' = a
          /\ c2' = b
    /\ signals' = signals \o <<Signal("message", "Conectando a BD1...", ""),
                               Signal("message", "Conectando a BD2...", "")>>
    /\ pc' = "options"
    /\ UNCHANGED <<catalog, runs, app, options, step, diferencias, sql_objects_bd1, sql_objects_bd2, invoked,
                   raised, provider_errors, files, emitted, view_reads, generated>>

\* run_comparison, lines 36-39 and 81-83: conectar_ruta raises on either database
ConnectFails ==
    /\ pc = "connect"
    /\ \E n \in 1..2 :
          LET msgs == [i \in 1..n |-> Signal("message", "Conectando a BD" \o ToString(i) \o "...", "")]
              e == "No se pudo conectar a la base de datos BD" \o ToString(n)
          IN /\ signals' = ExceptHandler(signals \o msgs, e)
             /\ raised' = e
             /\ c1' = IF n = 2 THEN 1 ELSE NotConnected
    /\ pc' = "done"
    /\ UNCHANGED <<catalog, runs, app, c2, options, step, diferencias, sql_objects_bd1, sql_objects_bd2, invoked,
                   provider_errors, files, emitted, view_reads, generated>>

\* a run that goes on with the generator object it finds
GeneradorAnterior(st) == st
\* SQLGenerator.__init__: a new generator, both accumulators empty
SQLGenerator(st) == [st EXCEPT !.bd1 = EmptyAccumulator, !.bd2 = EmptyAccumulator]

\* run_comparison, lines 41-51: a new report list; nothing selected ends the run with
\* an error, otherwise a new generator is built
CheckOptions ==
    /\ pc = "options"
    /\ diferencias' = << >>
    /\ IF opciones_activas(options) = 0
       THEN /\ signals' = Append(signals, Signal("error", "No se seleccionaron opciones de comparacion", ""))
            /\ pc' = "done"
            /\ UNCHANGED <<sql_objects_bd1, sql_objects_bd2>>
       ELSE /\ signals' = signals
            /\ pc' = NextBlock(0, options)
            /\ sql_objects_bd1' = SQLGenerator(St).bd1
            /\ sql_objects_bd2' = SQLGenerator(St).bd2
    /\ step' = 0
    /\ UNCHANGED <<catalog, runs, app, c1, c2, options, invoked,
                   raised, provider_errors, files, emitted, view_reads, generated>>

\* the end of an if-block: the progress signal, or the except clause of run_comparison
EndOfBlock(st, progreso) ==
    IF st.exc # ""
    THEN [st EXCEPT !.sig = ExceptHandler(@, st.exc)]
    ELSE [st EXCEPT !.sig = Append(@, Signal("progress", ToString(progreso), ""))]

\* one if-block of _ejecutar_comparaciones: message, comparator calls, progress
Bloque(b) ==
    /\ pc = b
    /\ SetSt(EndOfBlock(RunCalls([St EXCEPT !.sig = Append(@, Signal("message", BlockMessage(b), ""))],
                                 c1, c2, BlockCalls(b, c1, c2)),
                        (step * 100) \div opciones_activas(options)))
    /\ step' = IF raised' # "" THEN step ELSE step + 1
    /\ pc' = PcAfter(raised', BlockIndex(b), options)
    /\ UNCHANGED <<catalog, runs, app, c1, c2, options, files, generated>>

\* a comparator entered whose first metadata read raises
ProviderRaises(st, con, call, fn) ==
    [st EXCEPT !.inv = Append(@, call),
               !.perr = Append(@, ProviderError(fn, con, call.tabla, Len(st.inv) + 1)),
               !.exc = "Error while executing SQL statement: " \o fn]

\* the same if-block when the first metadata read of its first comparator raises
BloqueFalla(b) ==
    /\ pc = b
    /\ BlockCalls(b, c1, c2) # << >>
    /\ SetSt(EndOfBlock(ProviderRaises([St EXCEPT !.sig = Append(@, Signal("message", BlockMessage(b), ""))],
                                       c1, BlockCalls(b, c1, c2)[1],
                                       FirstProviderCall(BlockCalls(b, c1, c2)[1])),
                        0))
    /\ pc' = PcAfter(raised', BlockIndex(b), options)
    /\ UNCHANGED <<catalog, runs, app, c1, c2, options, step, files, generated>>

\* run_comparison, lines 60-79: export, the two final scripts, finished
Exportar ==
    /\ pc = "exportar"
    /\ files' = Some(exportar_solo_diferencias(diferencias, GetSql(sql_objects_bd1).sql,
                                               GetSql(sql_objects_bd2).sql, options))
    /\ signals' = signals \o <<Signal("message", "Generando archivos TXT...", ""),
                               Signal("sql_generated", "SQL_BD1_COMPLETO",
                                      GetSql(GetSql(sql_objects_bd1).acc).sql),
                               Signal("sql_generated", "SQL_BD2_COMPLETO",
                                      GetSql(GetSql(sql_objects_bd2).acc).sql),
                               Signal("message", _construir_mensaje_final, ""),
                               Signal("finished", "", "")>>
    /\ sql_objects_bd1' = GetSql(GetSql(sql_objects_bd1).acc).acc
    /\ sql_objects_bd2' = GetSql(GetSql(sql_objects_bd2).acc).acc
    /\ pc' = "done"
    /\ UNCHANGED <<catalog, runs, app, c1, c2, options, step, diferencias, invoked,
                   raised, provider_errors, emitted, view_reads, generated>>

BlockNames == Range(Blocks)

Next ==
    \/ Connect
    \/ ConnectFails
    \/ CheckOptions
    \/ \E b \in BlockNames : Bloque(b)
    \/ \E b \in BlockNames : BloqueFalla(b)
    \/ Exportar

Spec == Init /\ [][Next]_vars

(***************************************************************************)
(* Several runs in one process.  main_app.py starts every run in a new     *)
(* thread with a new WorkerSignals object and the options read from the    *)
(* checkboxes and a file name the user chooses for it; the report list and *)
(* the generator of the run before are left as that run left them.  runs   *)
(* records how each earlier run ended: with records or without, with an    *)
(* error or without.                                                       *)
(***************************************************************************)
MaxRuns == 2
\* the runs of this specification are started with no box or a single box checked
RunOptionSets == {o \in OptionSets : \A a, b \in Checked(o) : a = b}

InitRuns ==
    /\ Init
    /\ options \in RunOptionSets

\* main_app.py, _configurar_y_lanzar_hilo: run_comparison is called again
Relaunch ==
    /\ pc = "done"
    /\ Len(runs) + 1 < MaxRuns
    /\ runs' = Append(runs, [registros |-> diferencias # << >>,
                             error |-> \E j \in 1..Len(signals) : signals[j].signal = "error"])
    /\ options' \in RunOptionSets
    /\ pc' = "connect"
    /\ c1' = NotConnected
    /\ c2' = NotConnected
    /\ step' = 0
    /\ signals' = << >>
    /\ invoked' = << >>
    /\ raised' = ""
    /\ provider_errors' = << >>
    /\ emitted' = << >>
    /\ view_reads' = << >>
    /\ files' = NoFiles
    /\ UNCHANGED <<catalog, app, diferencias, sql_objects_bd1, sql_objects_bd2, generated>>

(***************************************************************************)
(* main_app.py: the main window.  app holds the state of the compare       *)
(* button, whether both path fields are filled, the number of worker       *)
(* threads that run, the terminal signals emitted by workers and not yet   *)
(* handled by their slot, and the number of runs launched; options is the  *)
(* state of the ten checkboxes.  A worker is its thread only: by C25 it    *)
(* ends with one finished or error signal, queued to the main thread.      *)
(***************************************************************************)
MaxLaunches == 2

InitApp ==
    /\ InitCatalog
    /\ c1 = NotConnected
    /\ c2 = NotConnected
    /\ options = [k \in OptionNames |-> TRUE]
    /\ pc = "app"
    /\ step = 0
    /\ diferencias = << >>
    /\ sql_objects_bd1 = EmptyAccumulator
    /\ sql_objects_bd2 = EmptyAccumulator
    /\ signals = << >>
    /\ invoked = << >>
    /\ raised = ""
    /\ provider_errors = << >>
    /\ files = NoFiles
    /\ emitted = << >>
    /\ view_reads = << >>
    /\ runs = << >>
    /\ app = NoApp
    /\ generated = << >>

\* _on_tablas_toggle: unchecking tablas unchecks (and disables) campos, pk and fk
_on_tablas_toggle(o) ==
    IF o["tablas"] THEN o
    ELSE [o EXCEPT !["campos"] = FALSE, !["pk"] = FALSE, !["fk"] = FALSE]

\* the user clicks a checkbox that is enabled
Toggle(k) ==
    /\ pc = "app"
    /\ k \in {"campos", "pk", "fk"} => options["tablas"]
    /\ _on_tablas_toggle([options EXCEPT ![k] = ~@]) \in OptionSets
    /\ options' = _on_tablas_toggle([options EXCEPT ![k] = ~@])
    /\ UNCHANGED <<catalog, runs, app, c1, c2, pc, step, diferencias, sql_objects_bd1,
                   sql_objects_bd2, signals, invoked, raised, provider_errors, files, emitted,
                   view_reads, generated>>

AppUnchanged ==
    UNCHANGED <<catalog, runs, c1, c2, options, pc, step, diferencias, sql_objects_bd1,
                sql_objects_bd2, signals, invoked, raised, provider_errors, files, emitted,
                view_reads, generated>>

\* _select_file on both path fields: the user chooses the two databases
SelectFiles ==
    /\ pc = "app"
    /\ ~app.ed_bd
    /\ app' = [app EXCEPT !.ed_bd = TRUE]
    /\ AppUnchanged

\* _start_comparison, _preparar_ui_para_comparacion, _configurar_y_lanzar_hilo: a
\* click on the compare button, which only an enabled button takes, with both paths
\* and a file name: the button is disabled and a new worker thread is started
_start_comparison ==
    /\ pc = "app"
    /\ app.btn_compare
    /\ app.ed_bd
    /\ app.launched < MaxLaunches
    /\ app' = [app EXCEPT !.btn_compare = FALSE, !.threads = @ + 1, !.launched = @ + 1]
    /\ AppUnchanged

\* a worker thread ends: run_comparison has emitted finished or error, the signal is
\* queued for the main thread
WorkerEnds(sig) ==
    /\ pc = "app"
    /\ app.threads > 0
    /\ app' = [app EXCEPT !.threads = @ - 1, !.queued = Append(@, sig)]
    /\ AppUnchanged

\* _on_finished: the slot of the finished signal
_on_finished ==
    /\ pc = "app"
    /\ app.queued # << >>
    /\ Head(app.queued) = "finished"
    /\ app' = [app EXCEPT !.queued = Tail(@), !.btn_compare = TRUE]
    /\ AppUnchanged

\* _on_error: the slot of the error signal
_on_error ==
    /\ pc = "app"
    /\ app.queued # << >>
    /\ Head(app.queued) = "error"
    /\ app' = [app EXCEPT !.queued = Tail(@), !.btn_compare = TRUE]
    /\ AppUnchanged

\* _reset_app: the Nueva Comparacion button, which is never disabled
_reset_app ==
    /\ pc = "app"
    /\ app' = [app EXCEPT !.ed_bd = FALSE, !.btn_compare = TRUE]
    /\ options' = [k \in OptionNames |-> TRUE]
    /\ UNCHANGED <<catalog, runs, c1, c2, pc, step, diferencias, sql_objects_bd1,
                   sql_objects_bd2, signals, invoked, raised, provider_errors, files, emitted,
                   view_reads, generated>>

NextApp ==
    \/ \E k \in OptionNames : Toggle(k)
    \/ SelectFiles
    \/ _start_comparison
    \/ \E sig \in {"finished", "error"} : WorkerEnds(sig)
    \/ _on_finished
    \/ _on_error
    \/ _reset_app

SpecApp == InitApp /\ [][NextApp]_vars

\* the positions of run_comparison
Positions == {"connect", "options", "exportar", "done"} \cup BlockNames
\* the thread moves on from a position that is not the end; every action of Next is
\* such a step, and at every position but the end one of them has its guard true
Advance == pc # "done" /\ pc' \in Positions \ {pc}
\* run_comparison runs in a thread of its own and every statement of it ends, so the
\* thread does not stay at a position before the end for ever
SpecFair == Spec /\ WF_pc(Advance)

NextRuns ==
    \/ Next
    \/ Relaunch

SpecRuns == InitRuns /\ [][NextRuns]_vars


(***************************************************************************)
(* The comparators on their own: any of them, in any order, on one report  *)
(* list and one SQLGenerator, over every pair of databases.                *)
(***************************************************************************)
\* how many comparator calls a sequence makes
MaxCalls == 2

AllChecked == [k \in OptionNames |-> TRUE]

EngineCalls(con1, con2) ==
    {Call(f, "") : f \in {"comparar_tablas", "comparar_indices_pk", "comparar_triggers",
                          "comparar_procedimientos", "comparar_vistas", "comparar_generadores"}}
    \cup {Call(f, t) : f \in {"comparar_campos_tabla", "comparar_foreign_keys"},
                       t \in Range(tablas_comunes(con1, con2))}

InitEngine ==
    /\ InitCatalog
    /\ c1 \in Connections
    /\ c2 \in Connections
    /\ options = AllChecked
    /\ pc = "engine"
    /\ step = 0
    /\ diferencias = << >>
    /\ sql_objects_bd1 = EmptyAccumulator
    /\ sql_objects_bd2 = EmptyAccumulator
    /\ signals = << >>
    /\ invoked = << >>
    /\ raised = ""
    /\ provider_errors = << >>
    /\ files = NoFiles
    /\ emitted = << >>
    /\ view_reads = << >>
    /\ runs = << >>
    /\ app = NoApp
    /\ generated = << >>

\* one comparator call, each at most once; an exception ends the sequence
Invocar(call) ==
    /\ pc = "engine"
    /\ raised = ""
    /\ Len(invoked) < MaxCalls
    /\ call \notin Range(invoked)
    /\ SetSt(ApplyCall(St, c1, c2, call))
    /\ UNCHANGED <<catalog, runs, app, c1, c2, options, pc, step, files, generated>>

NextEngine == \E call \in EngineCalls(c1, c2) : Invocar(call)

SpecEngine == InitEngine /\ [][NextEngine]_vars

(***************************************************************************)
(* SQLGenerator on its own: any sequence of emit_sql calls.                *)
(***************************************************************************)
\* how many emit_sql calls a sequence makes
MaxEmits == 2

Statements == {"CREATE TABLE A (\n    ID INTEGER\n);\n", "ALTER TABLE A ADD B INTEGER;\n"}
Destinos == {"BD1", "BD2"}

InitEmit ==
    /\ InitCatalog
    /\ c1 = NotConnected
    /\ c2 = NotConnected
    /\ options = AllChecked
    /\ pc = "emit"
    /\ step = 0
    /\ diferencias = << >>
    /\ sql_objects_bd1 = EmptyAccumulator
    /\ sql_objects_bd2 = EmptyAccumulator
    /\ signals = << >>
    /\ invoked = << >>
    /\ raised = ""
    /\ provider_errors = << >>
    /\ files = NoFiles
    /\ emitted = << >>
    /\ view_reads = << >>
    /\ runs = << >>
    /\ app = NoApp
    /\ generated = << >>

EmitSql(tipo, sql, destino) ==
    /\ pc = "emit"
    /\ Len(signals) < MaxEmits
    /\ SetSt(emit_sql(St, tipo, sql, destino))
    /\ UNCHANGED <<catalog, runs, app, c1, c2, options, pc, step, files, generated>>

NextEmit == \E tipo \in Tipos, sql \in Statements, destino \in Destinos : EmitSql(tipo, sql, destino)

SpecEmit == InitEmit /\ [][NextEmit]_vars

(***************************************************************************)
(* SQLGenerator called directly: any sequence of generate_* calls on the   *)
(* objects of BD1's catalog, with comparar_indices_pk on the two databases *)
(* run once before, between or after them.                                 *)
(* generated logs each call: the function, the table, the key fields it    *)
(* was given or read, the target, the returned text, and how many emit_sql *)
(* calls had been made before and after it.                                *)
(***************************************************************************)
\* how many generate_* calls a sequence makes
MaxGenerates == 1

InitGenerate ==
    /\ InitCatalog
    /\ c1 \in Connections
    /\ c2 \in Connections
    /\ options = AllChecked
    /\ pc = "generate"
    /\ step = 0
    /\ diferencias = << >>
    /\ sql_objects_bd1 = EmptyAccumulator
    /\ sql_objects_bd2 = EmptyAccumulator
    /\ signals = << >>
    /\ invoked = << >>
    /\ raised = ""
    /\ provider_errors = << >>
    /\ files = NoFiles
    /\ emitted = << >>
    /\ view_reads = << >>
    /\ runs = << >>
    /\ app = NoApp
    /\ generated = << >>

\* a further call fits the bound
Generating == pc = "generate" /\ Len(generated) - Len(invoked) < MaxGenerates

GeneratedCall(fn, tabla, pk, destino, sql, to) ==
    [fn |-> fn, tabla |-> tabla, pk |-> pk, destino |-> destino, sql |-> sql,
     from |-> Len(emitted), to |-> to]

\* one call: g is what the generate_* operator returned
Logged(fn, tabla, pk, destino, g) ==
    /\ SetSt(g.st)
    /\ generated' = Append(generated, GeneratedCall(fn, tabla, pk, destino, g.sql, Len(g.st.emi)))
    /\ UNCHANGED <<catalog, runs, app, c1, c2, options, pc, step, files>>

\* one generate_* call: g is what the operator returned
Generate(fn, tabla, pk, destino, g) == Generating /\ Logged(fn, tabla, pk, destino, g)

GenerateCreateTable(t, destino) ==
    Generate("generate_create_table", t, get_primary_keys(c1, t), destino,
             generate_create_table(St, t, get_fields(c1, t), c1, destino))

GenerateCreatePrimaryKey(t, pk, destino) ==
    Generate("generate_create_primary_key", t, pk, destino,
             generate_create_primary_key(St, t, pk, destino))

GenerateCreateField(t, campo, destino) ==
    Generate("generate_create_field", t, << >>, destino,
             generate_create_field(St, t, campo, Item(get_fields(c1, t), campo), destino))

GenerateAlterField(t, campo, destino) ==
    Generate("generate_alter_field", t, << >>, destino,
             generate_alter_field(St, t, campo, Item(get_fields(c1, t), campo), destino))

GenerateCreateIndex(t, idx, destino) ==
    Generate("generate_create_index", t, << >>, destino,
             generate_create_index(St, t, idx, Item(get_indexes(c1, t), idx), destino))

GenerateCreateForeignKey(t, fk, destino) ==
    Generate("generate_create_foreign_key", t, << >>, destino,
             generate_create_foreign_key(St, t, fk, Item(get_foreign_keys(c1, t), fk), destino))

GenerateCreateTrigger(trg, destino) ==
    Generate("generate_create_trigger", "", << >>, destino,
             generate_create_trigger(St, trg, Item(get_triggers(c1), trg), destino))

GenerateCreateProcedure(proc, destino) ==
    Generate("generate_create_procedure", "", << >>, destino,
             generate_create_procedure(St, proc, Item(get_procedures(c1), proc), destino))

GenerateCreateView(view, destino) ==
    Generate("generate_create_view", "", << >>, destino,
             generate_create_view(St, view, get_view_definition(c1, view), destino))

GenerateCreateGenerator(gen, destino) ==
    Generate("generate_create_generator", "", << >>, destino,
             generate_create_generator(St, gen, Some(GeneratorRow(c1, gen).value), destino))

\* comparar_indices_pk on the two databases, once
GenerateIndicesPk ==
    /\ pc = "generate"
    /\ Call("comparar_indices_pk", "") \notin Range(invoked)
    /\ Logged("comparar_indices_pk", "", << >>, "",
                [st |-> ApplyCall(St, c1, c2, Call("comparar_indices_pk", "")), sql |-> ""])

NextGenerate ==
    \/ Generating /\ \E t \in Range(get_tables(c1)), destino \in Destinos : GenerateCreateTable(t, destino)
    \/ Generating /\ \E t \in Range(get_tables(c1)), destino \in Destinos :
          \E pk \in {<< >>, get_primary_keys(c1, t)} : GenerateCreatePrimaryKey(t, pk, destino)
    \/ Generating /\ \E t \in Range(get_tables(c1)), destino \in Destinos :
          \E campo \in KeySet(get_fields(c1, t)) : GenerateCreateField(t, campo, destino)
    \/ Generating /\ \E t \in Range(get_tables(c1)), destino \in Destinos :
          \E campo \in KeySet(get_fields(c1, t)) : GenerateAlterField(t, campo, destino)
    \/ Generating /\ \E t \in Range(get_tables(c1)), destino \in Destinos :
          \E idx \in KeySet(get_indexes(c1, t)) : GenerateCreateIndex(t, idx, destino)
    \/ Generating /\ \E t \in Range(get_tables(c1)), destino \in Destinos :
          \E fk \in KeySet(get_foreign_keys(c1, t)) : GenerateCreateForeignKey(t, fk, destino)
    \/ Generating /\ \E trg \in KeySet(get_triggers(c1)), destino \in Destinos : GenerateCreateTrigger(trg, destino)
    \/ Generating /\ \E proc \in KeySet(get_procedures(c1)), destino \in Destinos : GenerateCreateProcedure(proc, destino)
    \/ Generating /\ \E view \in Range(get_views(c1)), destino \in Destinos : GenerateCreateView(view, destino)
    \/ Generating /\ \E gen \in Range(get_generators(c1)), destino \in Destinos : GenerateCreateGenerator(gen, destino)
    \/ GenerateIndicesPk

SpecGenerate == InitGenerate /\ [][NextGenerate]_vars

(***************************************************************************)
(* SQLGenerator._get_sql_type on its own: one call on any field            *)
(* descriptor, whether get_fields can build it or not.  The type names are *)
(* strings ("" for a missing or empty one), the sizes integers or None.    *)
(***************************************************************************)
BaseTypes == {"", "LONG", "VARYING", "varchar", "NUMERIC", "BLOB", "TEXT", "BOOLEAN", "boolean"}
DisplayTypes == {"", "varchar(30)", "VARCHAR(30)", "NUMERIC(18,2)", "VARCHAR", "LONG", "BLOB", "Boolean"}
Lengths == {None, Some(0), Some(1), Some(30)}
Precisions == {None, Some(0), Some(18)}
Scales == {None, Some(0), Some(-2)}
Descriptors ==
    [tipo : DisplayTypes, tipo_base : BaseTypes, longitud : Lengths, precision : Precisions,
     escala : Scales, nullable : {"SI"}, dominio : {"RDB$1"}, default : {None}, computed : {"NO"},
     computed_source : {None}, orden : {1}, charset_info : {" CHARACTER SET NONE COLLATE NONE"}]

InitType ==
    /\ InitCatalog
    /\ c1 = NotConnected
    /\ c2 = NotConnected
    /\ options = AllChecked
    /\ pc = "type"
    /\ step = 0
    /\ diferencias = << >>
    /\ sql_objects_bd1 = EmptyAccumulator
    /\ sql_objects_bd2 = EmptyAccumulator
    /\ signals = << >>
    /\ invoked = << >>
    /\ raised = ""
    /\ provider_errors = << >>
    /\ files = NoFiles
    /\ emitted = << >>
    /\ view_reads = << >>
    /\ runs = << >>
    /\ app = NoApp
    /\ generated = << >>

\* the call and the value it returned
GetSqlType(props) ==
    /\ pc = "type"
    /\ generated = << >>
    /\ generated' = <<[fn |-> "_get_sql_type", props |-> props, sql |-> _get_sql_type(props)]>>
    /\ UNCHANGED <<catalog, runs, app, c1, c2, options, pc, step, diferencias, sql_objects_bd1,
                   sql_objects_bd2, signals, invoked, raised, provider_errors, files, emitted, view_reads>>

NextType == \E props \in Descriptors : GetSqlType(props)

SpecType == InitType /\ [][NextType]_vars


(***************************************************************************)
(* Properties.  What they read of a run: the report list, the two          *)
(* accumulators, the signals, the files, and the catalogs of the two       *)
(* connections.                                                            *)
(***************************************************************************)
ReportRows(hoja, nombre) ==
    {i \in 1..Len(diferencias) : diferencias[i].hoja = hoja /\ diferencias[i].nombre = nombre}
CategoryRows(hoja) == {i \in 1..Len(diferencias) : diferencias[i].hoja = hoja}
Statements1(tipo) == Range(sql_objects_bd1[tipo])
Statements2(tipo) == Range(sql_objects_bd2[tipo])
\* no statement of the kind, in either accumulator, contains the pattern
NoStatement(tipo, pattern) ==
    \A sql \in Statements1(tipo) \cup Statements2(tipo) : ~Contains(sql, pattern)
Invoked(f) == \E i \in 1..Len(invoked) : invoked[i].f = f
CommonTables == Range(get_tables(c1)) \cap Range(get_tables(c2))
CommonKeys(d1, d2) == KeySet(d1) \cap KeySet(d2)
EqualCommonKeys(d1, d2) == {k \in CommonKeys(d1, d2) : Item(d1, k) = Item(d2, k)}

\* the equality rule of fields: the six compared properties, trimmed and case-folded
FieldNorm(v) == upper(strip(v))
FieldsEqualRule(p1, p2) ==
    /\ FieldNorm(p1.tipo_base) = FieldNorm(p2.tipo_base)
    /\ FieldNorm(p1.nullable) = FieldNorm(p2.nullable)
    /\ FieldNorm(StrOptStr(p1.default)) = FieldNorm(StrOptStr(p2.default))
    /\ p1.longitud = p2.longitud
    /\ p1.precision = p2.precision
    /\ p1.escala = p2.escala
EqualCommonFields(f1, f2) == {c \in CommonKeys(f1, f2) : FieldsEqualRule(Item(f1, c), Item(f2, c))}

C1_Tables ==
    \A t \in CommonTables :
        ReportRows("Tablas", t) = {} /\ NoStatement("TABLA", "CREATE TABLE " \o t \o " (")
C1_Fields ==
    \A t \in CommonTables : \A c \in EqualCommonFields(get_fields(c1, t), get_fields(c2, t)) :
        /\ ReportRows("Campos_" \o t, c) = {}
        /\ NoStatement("CAMPO", "ALTER TABLE " \o t \o " ADD " \o c \o " ")
        /\ NoStatement("CAMPO", "ALTER TABLE " \o t \o " ALTER COLUMN " \o c \o " ")
C1_Indexes ==
    \A t \in CommonTables : \A idx \in EqualCommonKeys(get_indexes(c1, t), get_indexes(c2, t)) :
        /\ ReportRows("Indices_" \o t, idx) = {}
        /\ NoStatement("INDICE", "INDEX " \o idx \o " ON " \o t \o " ")
C1_PrimaryKeys ==
    \A t \in CommonTables :
        get_primary_keys(c1, t) = get_primary_keys(c2, t)
        => /\ CategoryRows("PK_" \o t) = {}
           /\ NoStatement("PRIMARY_KEY", "ADD CONSTRAINT PK_" \o t \o " ")
C1_ForeignKeys ==
    \A t \in CommonTables :
        \A fk \in EqualCommonKeys(get_foreign_keys(c1, t), get_foreign_keys(c2, t)) :
            /\ ReportRows("FK_" \o t, fk) = {}
            /\ NoStatement("FOREIGN_KEY", "ADD CONSTRAINT " \o fk \o " FOREIGN KEY")
C1_Triggers ==
    \A tr \in EqualCommonKeys(get_triggers(c1), get_triggers(c2)) :
        ReportRows("Triggers", tr) = {} /\ NoStatement("TRIGGER", "CREATE TRIGGER " \o tr \o " ")
C1_Procedures ==
    \A pr \in EqualCommonKeys(get_procedures(c1), get_procedures(c2)) :
        /\ ReportRows("Procedimientos", pr) = {}
        /\ NoStatement("PROCEDIMIENTO", "CREATE PROCEDURE " \o pr \o "\n")
C1_Views ==
    \A v \in Range(get_views(c1)) \cap Range(get_views(c2)) :
        ReportRows("Vistas", v) = {} /\ NoStatement("VISTA", "CREATE VIEW " \o v \o " AS")
C1_Sequences ==
    \A g \in Range(get_generators(c1)) \cap Range(get_generators(c2)) :
        ReadGenerator(c1, g) = ReadGenerator(c2, g)
        => ReportRows("Generadores", g) = {} /\ NoStatement("GENERADOR", "CREATE GENERATOR " \o g \o ";")

\* C1: once the comparators invoked so far have returned, an object present on both
\* sides whose attributes are equal under its category's rule has no record in the
\* report and no statement in either accumulator, in every category.
C1_NoNoise ==
    raised = ""
    => /\ C1_Tables /\ C1_Fields /\ C1_Indexes /\ C1_PrimaryKeys /\ C1_ForeignKeys
       /\ C1_Triggers /\ C1_Procedures /\ C1_Views /\ C1_Sequences

\* comparar_indices_pk has returned on a pair with an equal common index, and
\* the report holds the differences of other objects
C1_Witness ==
    /\ raised = ""
    /\ Invoked("comparar_indices_pk")
    /\ \E t \in CommonTables : EqualCommonKeys(get_indexes(c1, t), get_indexes(c2, t)) # {}
    /\ \E i \in 1..Len(diferencias) : diferencias[i].estatus = "DIFERENTE"


\* the comparison blocks of the run have all completed
RunComplete == pc = "exportar"
InvokedOn(f, t) == \E i \in 1..Len(invoked) : invoked[i] = Call(f, t)
AllTables == Range(get_tables(c1)) \cup Range(get_tables(c2))
IndexesOf(con, t) == IF t \in Range(get_tables(con)) THEN get_indexes(con, t) ELSE << >>
PrimaryKeyOf(con, t) == IF t \in Range(get_tables(con)) THEN get_primary_keys(con, t) ELSE << >>
\* |names only in left| + |names only in right| + |common names that differ|
Complement(d1, d2) ==
    Cardinality(KeySet(d1) \ KeySet(d2)) + Cardinality(KeySet(d2) \ KeySet(d1))
    + Cardinality(CommonKeys(d1, d2) \ EqualCommonKeys(d1, d2))
ComplementOfNames(n1, n2) == Cardinality(n1 \ n2) + Cardinality(n2 \ n1)
ComplementOfFields(f1, f2) ==
    Cardinality(KeySet(f1) \ KeySet(f2)) + Cardinality(KeySet(f2) \ KeySet(f1))
    + Cardinality(CommonKeys(f1, f2) \ EqualCommonFields(f1, f2))
ComplementOfSequences ==
    ComplementOfNames(Range(get_generators(c1)), Range(get_generators(c2)))
    + Cardinality({g \in Range(get_generators(c1)) \cap Range(get_generators(c2)) :
                      ReadGenerator(c1, g) # ReadGenerator(c2, g)})
RowCount(hoja) == Cardinality(CategoryRows(hoja))
NoRecordTwice ==
    \A i, j \in 1..Len(diferencias) :
        /\ diferencias[i].hoja = diferencias[j].hoja
        /\ diferencias[i].nombre = diferencias[j].nombre
        /\ diferencias[i].estatus = diferencias[j].estatus
        => i = j

\* C2: after a complete run of _ejecutar_comparaciones every category that was
\* compared holds as many records as the names only on the left, plus the names
\* only on the right, plus the common names that differ, and no (category, name,
\* status) record appears twice.
C2_ComplementCount ==
    RunComplete
    => /\ Invoked("comparar_tablas")
          => RowCount("Tablas") = ComplementOfNames(Range(get_tables(c1)), Range(get_tables(c2)))
       /\ \A t \in CommonTables :
             /\ InvokedOn("comparar_campos_tabla", t)
                => RowCount("Campos_" \o t) = ComplementOfFields(get_fields(c1, t), get_fields(c2, t))
             /\ InvokedOn("comparar_foreign_keys", t)
                => RowCount("FK_" \o t) = Complement(get_foreign_keys(c1, t), get_foreign_keys(c2, t))
       /\ Invoked("comparar_indices_pk")
          => \A t \in AllTables :
                /\ RowCount("Indices_" \o t) = Complement(IndexesOf(c1, t), IndexesOf(c2, t))
                /\ RowCount("PK_" \o t) = IF PrimaryKeyOf(c1, t) # PrimaryKeyOf(c2, t) THEN 1 ELSE 0
       /\ Invoked("comparar_triggers")
          => RowCount("Triggers") = Complement(get_triggers(c1), get_triggers(c2))
       /\ Invoked("comparar_procedimientos")
          => RowCount("Procedimientos") = Complement(get_procedures(c1), get_procedures(c2))
       /\ Invoked("comparar_vistas")
          => RowCount("Vistas") = ComplementOfNames(Range(get_views(c1)), Range(get_views(c2)))
       /\ Invoked("comparar_generadores") => RowCount("Generadores") = ComplementOfSequences
       /\ NoRecordTwice


\* the common fields of table t of which only the length differs
LengthOnlyFields(f1, f2) ==
    {c \in CommonKeys(f1, f2) :
        /\ FieldNorm(Item(f1, c).tipo_base) = FieldNorm(Item(f2, c).tipo_base)
        /\ FieldNorm(Item(f1, c).nullable) = FieldNorm(Item(f2, c).nullable)
        /\ FieldNorm(StrOptStr(Item(f1, c).default)) = FieldNorm(StrOptStr(Item(f2, c).default))
        /\ Item(f1, c).precision = Item(f2, c).precision
        /\ Item(f1, c).escala = Item(f2, c).escala
        /\ Item(f1, c).longitud # Item(f2, c).longitud}
\* the call that is the last one made
LastInvoked(call) == Len(invoked) > 0 /\ invoked[Len(invoked)] = call
DifferentRows(hoja, nombre) ==
    {i \in ReportRows(hoja, nombre) : diferencias[i].estatus = "DIFERENTE"}

\* C3: once comparar_campos_tabla has been called on a common table, it has returned
\* normally, and each common field of which only the length differs has exactly one
\* DIFERENTE record in Campos_<table>, with the summary 'longitud: <left> vs <right>'
\* and one ALTER statement per direction.
C3_LengthOnlyDifference ==
    \A t \in CommonTables :
        InvokedOn("comparar_campos_tabla", t)
        => /\ LastInvoked(Call("comparar_campos_tabla", t)) => raised = ""
           /\ \A c \in LengthOnlyFields(get_fields(c1, t), get_fields(c2, t)) :
                 /\ Cardinality(DifferentRows("Campos_" \o t, c)) = 1
                 /\ \A i \in DifferentRows("Campos_" \o t, c) :
                       /\ diferencias[i].diferencia
                          = "longitud: " \o StrOptInt(Item(get_fields(c1, t), c).longitud)
                            \o " vs " \o StrOptInt(Item(get_fields(c2, t), c).longitud)
                       /\ startswith(diferencias[i].sql_bd1, "ALTER TABLE " \o t \o " ")
                       /\ startswith(diferencias[i].sql_bd2, "ALTER TABLE " \o t \o " ")

\* the common fields whose change to the other side's attributes narrows the length
NarrowedFields(f1, f2) ==
    {c \in CommonKeys(f1, f2) :
        /\ ~IsNone(Item(f1, c).longitud) /\ ~IsNone(Item(f2, c).longitud)
        /\ Val(Item(f1, c).longitud) # Val(Item(f2, c).longitud)}
EveryLineCommented(sql) ==
    \A i \in 1..Len(SplitLines(sql)) :
        SplitLines(sql)[i] = "" \/ startswith(lstrip(SplitLines(sql)[i]), "--")
        \/ startswith(lstrip(SplitLines(sql)[i]), "/*")

\* C4: once comparar_campos_tabla has been called on a common table, it has returned,
\* and each field whose modification narrows the length has its DIFERENTE record,
\* in which the statement of the narrowing direction is commented out on every line.
C4_InfeasibleCommented ==
    \A t \in CommonTables :
        InvokedOn("comparar_campos_tabla", t)
        => /\ LastInvoked(Call("comparar_campos_tabla", t)) => raised = ""
           /\ \A c \in NarrowedFields(get_fields(c1, t), get_fields(c2, t)) :
                 /\ DifferentRows("Campos_" \o t, c) # {}
                 /\ \A i \in DifferentRows("Campos_" \o t, c) :
                       \/ EveryLineCommented(diferencias[i].sql_bd1)
                       \/ EveryLineCommented(diferencias[i].sql_bd2)


\* the sequence s in the order p of its positions
Permuted(s, p) == [i \in 1..Len(s) |-> s[p[i]]]
Reorderings(s) == {Permuted(s, p) : p \in Permutations(1..Len(s))}

\* C5: the comparator calls made so far, made in any other order on the same two
\* databases with a fresh report and generator, give the same two flattened scripts.
C5_OrderIndependentScripts ==
    raised = ""
    => \A calls \in Reorderings(invoked) :
          /\ get_sql_bd1(RunCalls(EmptySt, c1, c2, calls)) = get_sql_bd1(St)
          /\ get_sql_bd2(RunCalls(EmptySt, c1, c2, calls)) = get_sql_bd2(St)


\* the order of kinds the dependency rule asks for
KindOrder == <<"GENERADOR", "TABLA", "CAMPO", "PRIMARY_KEY", "INDICE", "FOREIGN_KEY",
               "VISTA", "PROCEDIMIENTO", "TRIGGER">>
RECURSIVE TextLength(_)
\* the length of the statements, each with its two line ends
TextLength(stmts) == IF Len(stmts) = 0 THEN 0 ELSE Len(stmts[1]) + 2 + TextLength(Tail(stmts))
RECURSIVE KindsLength(_, _)
\* the length of the statements of the first n kinds
KindsLength(acc, n) == IF n = 0 THEN 0 ELSE KindsLength(acc, n - 1) + TextLength(acc[KindOrder[n]])
\* where the j-th statement of the n-th kind begins when every statement of a kind
\* precedes every statement of the later kinds
Position(acc, n, j) == KindsLength(acc, n - 1) + TextLength(SubSeq(acc[KindOrder[n]], 1, j - 1))
InKindOrder(acc, script) ==
    /\ Len(script) = KindsLength(acc, Len(KindOrder))
    /\ \A n \in 1..Len(KindOrder) : \A j \in 1..Len(acc[KindOrder[n]]) :
          SubSeq(script, Position(acc, n, j) + 1, Position(acc, n, j) + Len(acc[KindOrder[n]][j]))
          = acc[KindOrder[n]][j]

\* C6: after any sequence of emit_sql calls, each of the two flattened scripts holds
\* the statements of its accumulator kind after kind in the order GENERADOR, TABLA,
\* CAMPO, PRIMARY_KEY, INDICE, FOREIGN_KEY, VISTA, PROCEDIMIENTO, TRIGGER, every
\* statement of a kind before every statement of a later kind.
C6_DependencyOrder ==
    /\ InKindOrder(sql_objects_bd1, get_sql_bd1(St))
    /\ InKindOrder(sql_objects_bd2, get_sql_bd2(St))

\* a field addition emitted before the table it belongs to, for the same script
C6_Witness ==
    /\ Len(signals) = 2
    /\ signals[1].a = "CAMPO" /\ signals[2].a = "TABLA"
    /\ signals[1].b # signals[2].b
    /\ Len(sql_objects_bd1["CAMPO"]) = 1 /\ Len(sql_objects_bd1["TABLA"]) = 1


\* the common fields of two field dictionaries that differ under the rule of fields
DifferentFields(f1, f2) == CommonKeys(f1, f2) \ EqualCommonFields(f1, f2)

\* C7: once comparar_campos_tabla has been called on a common table, each field that
\* differs has a DIFERENTE record whose statement for the script applied to BD2 (the
\* column sql_bd1, which _exportar_scripts_bd2 writes) is the modification to BD1's
\* attributes, and whose statement for the script applied to BD1 (the column
\* sql_bd2) is the modification to BD2's attributes.
C7_AlterFromOtherSide ==
    \A t \in CommonTables :
        InvokedOn("comparar_campos_tabla", t)
        => \A c \in DifferentFields(get_fields(c1, t), get_fields(c2, t)) :
              \E i \in DifferentRows("Campos_" \o t, c) :
                  /\ diferencias[i].sql_bd1 = AlterFieldSql(t, c, Item(get_fields(c1, t), c))
                  /\ diferencias[i].sql_bd2 = AlterFieldSql(t, c, Item(get_fields(c2, t), c))


endswith(s, suffix) == Len(s) >= Len(suffix) /\ SubSeq(s, Len(s) - Len(suffix) + 1, Len(s)) = suffix
\* the statement of a primary key on the fields pk
PrimaryKeyStatement(t, pk) ==
    "ALTER TABLE " \o t \o " ADD CONSTRAINT PK_" \o t \o " PRIMARY KEY (" \o join(", ", pk) \o ");\n"
\* ddl is the CREATE TABLE statement of t with the fields of the database that has
\* it, followed by the primary-key statement when the primary key is not empty
CreateTableThenKey(ddl, con, t) ==
    /\ startswith(ddl, "CREATE TABLE " \o t \o " (\n")
    /\ \A c \in KeySet(get_fields(con, t)) : Contains(ddl, "    " \o c \o " ")
    /\ IF Len(get_primary_keys(con, t)) > 0
       THEN endswith(ddl, "\n);\n\n" \o PrimaryKeyStatement(t, get_primary_keys(con, t)))
       ELSE endswith(ddl, "\n);\n") /\ ~Contains(ddl, "PRIMARY KEY")
OnlyIn(a, b) == Range(get_tables(a)) \ Range(get_tables(b))

\* C8: once comparar_tablas has been called, a table only in BD2 has exactly one
\* record in Tablas, 'NO EXISTE EN BD1', with the CREATE TABLE statement followed by
\* the primary-key statement on the BD2 side and nothing on the BD1 side; a table
\* only in BD1 has the mirror record; a table on both sides has none.
C8_MissingTables ==
    Invoked("comparar_tablas")
    => /\ \A t \in OnlyIn(c2, c1) :
             /\ Cardinality(ReportRows("Tablas", t)) = 1
             /\ \A i \in ReportRows("Tablas", t) :
                   /\ diferencias[i].estatus = "NO EXISTE EN BD1"
                   /\ diferencias[i].sql_bd1 = ""
                   /\ CreateTableThenKey(diferencias[i].sql_bd2, c2, t)
       /\ \A t \in OnlyIn(c1, c2) :
             /\ Cardinality(ReportRows("Tablas", t)) = 1
             /\ \A i \in ReportRows("Tablas", t) :
                   /\ diferencias[i].estatus = "NO EXISTE EN BD2"
                   /\ diferencias[i].sql_bd2 = ""
                   /\ CreateTableThenKey(diferencias[i].sql_bd1, c1, t)
       /\ \A t \in CommonTables : ReportRows("Tablas", t) = {}

\* comparar_tablas has met a table only in BD2 that has a primary key, next to a
\* table on both sides
C8_Witness ==
    /\ Invoked("comparar_tablas")
    /\ CommonTables # {}
    /\ \E t \in OnlyIn(c2, c1) :
          Len(get_primary_keys(c2, t)) > 0 /\ ReportRows("Tablas", t) # {}


CommonSequences == Range(get_generators(c1)) \cap Range(get_generators(c2))
Unreadable(con, g) == ~GeneratorRow(con, g).readable
\* the value of a sequence as the comparison sees it: unknown when it cannot be read
SequenceValue(con, g) == IF Unreadable(con, g) THEN None ELSE Some(GeneratorRow(con, g).value)

\* C9: comparar_generadores returns normally whatever sequences cannot be read, and
\* once it has been called every sequence on both sides has one DIFERENTE record in
\* Generadores when its two values, unknown included, differ, and no record when
\* they are equal: one for unknown against known, none for unknown against unknown.
C9_UnreadableSequences ==
    /\ LastInvoked(Call("comparar_generadores", "")) => raised = ""
    /\ Invoked("comparar_generadores")
       => \A g \in CommonSequences :
             /\ ReportRows("Generadores", g) = DifferentRows("Generadores", g)
             /\ Cardinality(DifferentRows("Generadores", g))
                = IF SequenceValue(c1, g) # SequenceValue(c2, g) THEN 1 ELSE 0

\* comparar_generadores has met a sequence unreadable on one side only and, after
\* it, another common sequence whose values differ
C9_Witness ==
    /\ Invoked("comparar_generadores")
    /\ \E g \in CommonSequences, h \in CommonSequences :
          /\ Unreadable(c1, g) /\ ~Unreadable(c2, g)
          /\ StrLess(g, h)
          /\ DifferentRows("Generadores", g) # {}
          /\ DifferentRows("Generadores", h) # {}
          /\ \E i \in 1..Len(provider_errors) : provider_errors[i].arg = g


HasSignal(name) == \E j \in 1..Len(signals) : signals[j].signal = name
\* the run was aborted by the provider call e that raised: no comparator was called
\* after the one it raised in, nothing was exported, the error signal carries the
\* message and finished was not emitted
AbortedBy(e) ==
    /\ Len(invoked) = e.calls
    /\ files = NoFiles
    /\ raised # ""
    /\ \E j \in 1..Len(signals) : signals[j].signal = "error" /\ startswith(signals[j].a, raised)
    /\ ~HasSignal("finished")

\* C10 as stated: whichever metadata-provider call raised inside a comparator of the
\* run, the run was aborted by it.
C10_AnyProviderFailureAborts ==
    \A i \in 1..Len(provider_errors) : AbortedBy(provider_errors[i])

\* C10: a metadata-provider call other than the read of a sequence value, raised
\* inside a comparator of the run, aborts the run: no later comparator, no export,
\* the error signal with the message, and never the finished signal.
C10_ProviderFailureAborts ==
    \A i \in 1..Len(provider_errors) :
        provider_errors[i].fn # "_get_generator_value" => AbortedBy(provider_errors[i])

\* a run that ended on a provider failure after an earlier comparator had returned
C10_Witness ==
    /\ pc = "done"
    /\ Len(invoked) > 1
    /\ \E i \in 1..Len(provider_errors) :
          provider_errors[i].fn # "_get_generator_value" /\ provider_errors[i].calls = Len(invoked)


\* the kinds a comparator call appends to, on the two databases of the run
KindsWritten(call) ==
    {RunCalls(EmptySt, c1, c2, <<call>>).emi[i].tipo :
        i \in 1..Len(RunCalls(EmptySt, c1, c2, <<call>>).emi)}
Reversed(s) == [i \in 1..Len(s) |-> s[Len(s) + 1 - i]]

\* C11: the comparators of two different categories append to disjoint sets of
\* kinds, and so two of them run in either order on one generator leave the same
\* statement lists in every kind of both accumulators.
C11_DisjointKinds ==
    /\ \A a \in Range(invoked), b \in Range(invoked) :
          a.f # b.f => KindsWritten(a) \cap KindsWritten(b) = {}
    /\ (raised = "" /\ Len(invoked) = 2 /\ invoked[1].f # invoked[2].f)
       => /\ RunCalls(EmptySt, c1, c2, Reversed(invoked)).bd1 = sql_objects_bd1
          /\ RunCalls(EmptySt, c1, c2, Reversed(invoked)).bd2 = sql_objects_bd2


\* the records of one category and one status, which one loop of one comparator wrote
SameGroup(i, j) ==
    /\ diferencias[i].hoja = diferencias[j].hoja
    /\ diferencias[i].estatus = diferencias[j].estatus

\* C12: the records of every category stand, within the names only in BD1, within
\* the names only in BD2 and within the common names, in ascending order of name;
\* the indexes of a table that exists on one side only are no exception.
C12_LexicographicOrder ==
    \A i \in 1..Len(diferencias), j \in 1..Len(diferencias) :
        (i < j /\ SameGroup(i, j)) => StrLess(diferencias[i].nombre, diferencias[j].nombre)

\* the same, leaving out the indexes of the tables that exist on one side only
OrderedButOneSidedIndexes ==
    \A i \in 1..Len(diferencias), j \in 1..Len(diferencias) :
        (i < j /\ SameGroup(i, j)
         /\ ~\E t \in AllTables \ CommonTables : diferencias[i].hoja = "Indices_" \o t)
        => StrLess(diferencias[i].nombre, diferencias[j].nombre)


\* the emit_sql calls made for one kind and one target database, in call order
EmittedFor(tipo, destino) ==
    SelectSeq(emitted, LAMBDA e : e.tipo = tipo /\ e.destino = destino)
RECURSIVE Joined(_)
\* the texts of the calls, each with its two line ends, one after the other
Joined(es) == IF Len(es) = 0 THEN "" ELSE es[1].sql \o "\n\n" \o Joined(Tail(es))
RECURSIVE JoinedKinds(_, _)
\* the same for the first n kinds, kind after kind
JoinedKinds(destino, n) ==
    IF n = 0 THEN ""
    ELSE JoinedKinds(destino, n - 1) \o Joined(EmittedFor(KindOrder[n], destino))

\* C13: in each of the two flattened scripts the statements of one kind are the
\* texts of the emit_sql calls made for that kind and that target database, in the
\* order of the calls, whatever was emitted in between.
C13_EmissionOrderWithinKind ==
    /\ get_sql_bd1(St) = JoinedKinds("BD1", Len(KindOrder))
    /\ get_sql_bd2(St) = JoinedKinds("BD2", Len(KindOrder))

\* two different statements of one kind emitted for one database
C13_Witness ==
    /\ Len(emitted) = 2
    /\ emitted[1].tipo = emitted[2].tipo /\ emitted[1].tipo \in Range(KindOrder)
    /\ emitted[1].destino = "BD1" /\ emitted[2].destino = "BD1"
    /\ emitted[1].sql # emitted[2].sql

\* the descriptors _get_sql_type was called with, and what it returned
TypeCalls == {i \in 1..Len(generated) : generated[i].fn = "_get_sql_type"}
HasParameters(tipo) == Contains(tipo, "(") /\ Contains(tipo, ")")

SizedTypes == {"CHAR", "VARCHAR", "CHARACTER VARYING", "DECIMAL", "NUMERIC", "BLOB"}
\* a base type the lookup table does not hold and that is none of the sized types
UnknownBase(props) ==
    /\ props.tipo_base # ""
    /\ upper(props.tipo_base) \notin DOMAIN type_mapping
    /\ upper(props.tipo_base) \notin SizedTypes
\* the name lines 119-124 fall through to: the display type, else the base type
FallThroughName(props) == IF props.tipo # "" THEN upper(props.tipo) ELSE upper(props.tipo_base)

C16_DifferentIffPropertyDiffers ==
    \A t \in CommonTables :
        InvokedOn("comparar_campos_tabla", t)
        => \A c \in CommonKeys(get_fields(c1, t), get_fields(c2, t)) :
              /\ DifferentRows("Campos_" \o t, c) # {}
                 <=> ~FieldsEqualRule(Item(get_fields(c1, t), c), Item(get_fields(c2, t), c))
              /\ FieldNorm(Item(get_fields(c1, t), c).tipo_base)
                     = FieldNorm(Item(get_fields(c2, t), c).tipo_base)
                 => \A i \in DifferentRows("Campos_" \o t, c) :
                       ~Contains(diferencias[i].diferencia, "tipo:")

\* the statement column of the database that has the object, and the other one
OwnSql(i, destino) == IF destino = "BD1" THEN diferencias[i].sql_bd1 ELSE diferencias[i].sql_bd2
OtherSql(i, destino) == IF destino = "BD1" THEN diferencias[i].sql_bd2 ELSE diferencias[i].sql_bd1
\* the records of table t, which only the database con (side destino) has: one per
\* index with its CREATE INDEX statement, and one for a non-empty primary key
OneSidedIndexRecords(con, t, destino, estatus) ==
    \A idx \in KeySet(get_indexes(con, t)) :
        /\ Cardinality(ReportRows("Indices_" \o t, idx)) = 1
        /\ \A i \in ReportRows("Indices_" \o t, idx) :
              /\ diferencias[i].estatus = estatus
              /\ OwnSql(i, destino) = CreateIndexSql(t, idx, Item(get_indexes(con, t), idx))
              /\ startswith(OwnSql(i, destino), "CREATE ")
              /\ Contains(OwnSql(i, destino), "INDEX ")
              /\ OtherSql(i, destino) = ""
OneSidedKeyRecord(con, t, destino, estatus) ==
    IF Len(get_primary_keys(con, t)) > 0
    THEN /\ Cardinality(CategoryRows("PK_" \o t)) = 1
         /\ \A i \in CategoryRows("PK_" \o t) :
               /\ diferencias[i].nombre = join(",", get_primary_keys(con, t))
               /\ diferencias[i].estatus = estatus
               /\ OwnSql(i, destino) = PrimaryKeyStatement(t, get_primary_keys(con, t))
               /\ OtherSql(i, destino) = ""
    ELSE CategoryRows("PK_" \o t) = {}

\* C17: once comparar_indices_pk has been called, a table only in BD1 has, for each
\* of its indexes, exactly one record 'NO EXISTE EN BD2' in Indices_<table> with the
\* CREATE INDEX statement on the BD1 side, and, when its primary key is not empty,
\* exactly one record 'NO EXISTE EN BD2' in PK_<table> with the ADD CONSTRAINT
\* statement on the BD1 side (none when the key is empty); a table only in BD2 has
\* the mirror records.
C17_OneSidedTableIndexes ==
    Invoked("comparar_indices_pk")
    => /\ \A t \in OnlyIn(c1, c2) :
             /\ OneSidedIndexRecords(c1, t, "BD1", "NO EXISTE EN BD2")
             /\ OneSidedKeyRecord(c1, t, "BD1", "NO EXISTE EN BD2")
       /\ \A t \in OnlyIn(c2, c1) :
             /\ OneSidedIndexRecords(c2, t, "BD2", "NO EXISTE EN BD1")
             /\ OneSidedKeyRecord(c2, t, "BD2", "NO EXISTE EN BD1")

\* comparar_indices_pk was called where BD2 lacks a table that has indexes and a key
C17_Witness ==
    /\ Invoked("comparar_indices_pk")
    /\ \E t \in OnlyIn(c1, c2) :
          /\ Len(get_indexes(c1, t)) > 1
          /\ Len(get_primary_keys(c1, t)) > 0
          /\ CategoryRows("PK_" \o t) # {}
          /\ CategoryRows("Indices_" \o t) # {}

\* the numeric SQL types the mapping can return
NumericSqlType(sql_type) ==
    \/ sql_type \in {"INTEGER", "SMALLINT", "BIGINT", "FLOAT", "DOUBLE PRECISION"}
    \/ startswith(sql_type, "DECIMAL")
    \/ startswith(sql_type, "NUMERIC")
\* no definition of a numeric field of fields carries a character-set clause in ddl
NoCharsetOnNumeric(ddl, fields) ==
    \A k \in 1..Len(fields) :
        NumericSqlType(_get_sql_type(fields[k].value))
        => ~Contains(ddl, "    " \o fields[k].key \o " " \o _get_sql_type(fields[k].value)
                          \o " CHARACTER SET")

\* C18: once comparar_tablas has been called, in the CREATE TABLE statement of a
\* table that one database lacks no field whose mapped SQL type is numeric carries
\* a character-set clause.
C18_CharsetOnlyNonNumeric ==
    Invoked("comparar_tablas")
    => /\ \A t \in OnlyIn(c1, c2) : \A i \in ReportRows("Tablas", t) :
             NoCharsetOnNumeric(diferencias[i].sql_bd1, get_fields(c1, t))
       /\ \A t \in OnlyIn(c2, c1) : \A i \in ReportRows("Tablas", t) :
             NoCharsetOnNumeric(diferencias[i].sql_bd2, get_fields(c2, t))

\* the generate_* calls made on the generator directly
GenerateCalls == {i \in 1..Len(generated) : generated[i].fn # "comparar_indices_pk"}
\* the kind each generate_* function passes to emit_sql
KindOf(fn) ==
    CASE fn = "generate_create_table" -> "TABLA"
      [] fn = "generate_create_primary_key" -> "PRIMARY_KEY"
      [] fn = "generate_create_field" -> "CAMPO"
      [] fn = "generate_alter_field" -> "CAMPO"
      [] fn = "generate_create_index" -> "INDICE"
      [] fn = "generate_create_foreign_key" -> "FOREIGN_KEY"
      [] fn = "generate_create_trigger" -> "TRIGGER"
      [] fn = "generate_create_procedure" -> "PROCEDIMIENTO"
      [] fn = "generate_create_view" -> "VISTA"
      [] fn = "generate_create_generator" -> "GENERADOR"
\* what call i appended: the emit_sql calls made while it ran
AppendedBy(i) == SubSeq(emitted, generated[i].from + 1, generated[i].to)
Accumulator(destino) == IF destino = "BD1" THEN sql_objects_bd1 ELSE sql_objects_bd2
\* the last call's text is the last entry of its list in the accumulator of its target
LastInAccumulator(i, tipo, sql) ==
    i = Len(generated)
    => /\ Len(Accumulator(generated[i].destino)[tipo]) > 0
       /\ Accumulator(generated[i].destino)[tipo][Len(Accumulator(generated[i].destino)[tipo])] = sql
\* call i appended one entry, its return value, under its kind and target
OneEntry(i) ==
    /\ AppendedBy(i) = <<[tipo |-> KindOf(generated[i].fn), sql |-> generated[i].sql,
                          destino |-> generated[i].destino]>>
    /\ LastInAccumulator(i, KindOf(generated[i].fn), generated[i].sql)
\* call i appended a table statement and a key statement and returned both, joined
TableAndKeyEntries(i) ==
    /\ Len(AppendedBy(i)) = 2
    /\ AppendedBy(i)[1].tipo = "TABLA" /\ AppendedBy(i)[1].destino = generated[i].destino
    /\ AppendedBy(i)[2].tipo = "PRIMARY_KEY" /\ AppendedBy(i)[2].destino = generated[i].destino
    /\ generated[i].sql = AppendedBy(i)[1].sql \o "\n" \o AppendedBy(i)[2].sql
    /\ LastInAccumulator(i, "TABLA", AppendedBy(i)[1].sql)
    /\ LastInAccumulator(i, "PRIMARY_KEY", AppendedBy(i)[2].sql)

\* C19 as stated: every generate_* call appends exactly one entry, equal to its
\* return value, under the kind and the target database of the call.
C19_OneEntryPerCall == \A i \in GenerateCalls : OneEntry(i)

\* C19: every generate_* call appends exactly one entry, equal to its return value,
\* under the kind and the target database of the call, but for two: generate_create_table
\* on a table with a primary key appends the table statement under TABLA and the key
\* statement under PRIMARY_KEY and returns the two joined by a line break, and
\* generate_create_primary_key with an empty field list appends nothing and returns "".
C19_ReturnIsWhatWasAppended ==
    \A i \in GenerateCalls :
        IF generated[i].fn = "generate_create_table" /\ generated[i].pk # << >>
        THEN TableAndKeyEntries(i)
        ELSE IF generated[i].fn = "generate_create_primary_key" /\ generated[i].pk = << >>
        THEN AppendedBy(i) = << >> /\ generated[i].sql = ""
        ELSE OneEntry(i)

\* a table with a primary key created after comparar_indices_pk had put a key
\* statement into the same accumulator
C19_Witness ==
    /\ Len(generated) = 2
    /\ generated[1].fn = "comparar_indices_pk"
    /\ generated[2].fn = "generate_create_table" /\ generated[2].pk # << >>
    /\ generated[2].to = generated[2].from + 2
    /\ Len(Accumulator(generated[2].destino)["PRIMARY_KEY"]) > 1

\* the call logged last by this step is generate_create_primary_key with an empty list
EmptyKeyCall ==
    /\ Len(generated') = Len(generated) + 1
    /\ generated'[Len(generated')].fn = "generate_create_primary_key"
    /\ generated'[Len(generated')].pk = << >>
EmptyKeyNoEffect ==
    EmptyKeyCall => /\ generated'[Len(generated')].sql = ""
                    /\ sql_objects_bd1' = sql_objects_bd1
                    /\ sql_objects_bd2' = sql_objects_bd2
\* what comparar_indices_pk (call i) appended for the key of t in the script of destino
KeyStatementsBy(i, t, destino) ==
    {k \in 1..Len(AppendedBy(i)) :
        /\ AppendedBy(i)[k].tipo = "PRIMARY_KEY"
        /\ AppendedBy(i)[k].destino = destino
        /\ Contains(AppendedBy(i)[k].sql, "ALTER TABLE " \o t \o " ADD CONSTRAINT")}
\* the keys of common table t differ: one DIFERENTE record, and a side whose key is
\* empty has no statement in the record and none appended
EmptySideOfKey(i, t, p1, p2) ==
    p1 # p2
    => /\ \E r \in CategoryRows("PK_" \o t) : diferencias[r].estatus = "DIFERENTE"
       /\ \A r \in CategoryRows("PK_" \o t) :
             /\ p1 = << >> => diferencias[r].sql_bd1 = "" /\ KeyStatementsBy(i, t, "BD1") = {}
             /\ p2 = << >> => diferencias[r].sql_bd2 = "" /\ KeyStatementsBy(i, t, "BD2") = {}
             /\ p1 # << >> => diferencias[r].sql_bd1 = PrimaryKeyStatement(t, p1)
             /\ p2 # << >> => diferencias[r].sql_bd2 = PrimaryKeyStatement(t, p2)
EmptySideOfKeys ==
    \A i \in 1..Len(generated) :
        generated[i].fn = "comparar_indices_pk"
        => \A t \in CommonTables :
              EmptySideOfKey(i, t, get_primary_keys(c1, t), get_primary_keys(c2, t))

\* C20: a call of generate_create_primary_key with an empty field list returns ""
\* and leaves both accumulators as they were; and once comparar_indices_pk has been
\* called, a common table whose primary keys differ has a DIFERENTE record in
\* PK_<table> in which a side whose key is empty has no statement, and the call
\* appended no key statement for that side.
C20_EmptyKeyNoStatement == [][EmptyKeyNoEffect]_vars /\ []EmptySideOfKeys

\* comparar_indices_pk met a common table with a key on one side only, and then
\* generate_create_primary_key was called with an empty list on filled accumulators
C20_Witness ==
    /\ Len(generated) = 2
    /\ generated[1].fn = "comparar_indices_pk"
    /\ generated[1].to > 0
    /\ generated[2].fn = "generate_create_primary_key" /\ generated[2].pk = << >>
    /\ \E t \in CommonTables :
          /\ get_primary_keys(c1, t) = << >>
          /\ get_primary_keys(c2, t) # << >>
          /\ CategoryRows("PK_" \o t) # {}

CommonViews == Range(get_views(c1)) \cap Range(get_views(c2))
ViewsOnlyIn(a, b) == Range(get_views(a)) \ Range(get_views(b))
\* the views whose source get_view_definition was asked for
ViewsRead == {view_reads[i].view : i \in 1..Len(view_reads)}
\* view v has one record, with the statement that creates it on the side that has it
OneSidedViewRecord(v, con, estatus, own) ==
    /\ Cardinality(ReportRows("Vistas", v)) = 1
    /\ \A i \in ReportRows("Vistas", v) :
          /\ diferencias[i].estatus = estatus
          /\ IF own = "BD1"
             THEN diferencias[i].sql_bd1 = CreateViewSql(v, get_view_definition(con, v))
                  /\ diferencias[i].sql_bd2 = ""
             ELSE diferencias[i].sql_bd2 = CreateViewSql(v, get_view_definition(con, v))
                  /\ diferencias[i].sql_bd1 = ""

\* C21: once comparar_vistas has been called, a view that exists in both databases
\* has no record in Vistas and no statement in either accumulator, whether or not its
\* two sources differ, and its source was never read; the records of Vistas are those
\* of the views that exist on one side only, one for each.
C21_CommonViewsNotCompared ==
    Invoked("comparar_vistas")
    => /\ \A v \in CommonViews :
             /\ ReportRows("Vistas", v) = {}
             /\ NoStatement("VISTA", "CREATE VIEW " \o v \o " ")
             /\ v \notin ViewsRead
       /\ \A i \in CategoryRows("Vistas") :
             diferencias[i].nombre \in ViewsOnlyIn(c1, c2) \cup ViewsOnlyIn(c2, c1)
       /\ \A v \in ViewsOnlyIn(c1, c2) : OneSidedViewRecord(v, c1, "NO EXISTE EN BD2", "BD1")
       /\ \A v \in ViewsOnlyIn(c2, c1) : OneSidedViewRecord(v, c2, "NO EXISTE EN BD1", "BD2")

\* comparar_vistas was called on two databases that share a view of which the
\* sources differ, one of them having a view the other has not
C21_Witness ==
    /\ Invoked("comparar_vistas")
    /\ \E v \in CommonViews : get_view_definition(c1, v) # get_view_definition(c2, v)
    /\ ViewsOnlyIn(c1, c2) \cup ViewsOnlyIn(c2, c1) # {}
    /\ CategoryRows("Vistas") # {}

\* the last comparator call was ended by its first metadata read
FirstReadRaised ==
    /\ provider_errors # << >>
    /\ raised = "Error while executing SQL statement: " \o provider_errors[Len(provider_errors)].fn
\* the calls of this run that ran: all but one whose first metadata read raised
CallsRun == IF FirstReadRaised THEN SubSeq(invoked, 1, Len(invoked) - 1) ELSE invoked
\* what the same calls give on the same two databases starting from an empty report
\* list and a new generator
FreshRun == RunCalls(EmptySt, c1, c2, CallsRun)
\* this run has passed lines 41-51
GeneratorBuilt ==
    \/ pc \in BlockNames \cup {"exportar"}
    \/ pc = "done" /\ (HasSignal("finished") \/ invoked # << >>)
\* the script of the final sql_generated signal of that key
FinalScripts(key) ==
    {signals[j].b : j \in {k \in 1..Len(signals) :
                              signals[k].signal = "sql_generated" /\ signals[k].a = key}}

\* C22: in every run, the first and each later one, the report list and the two
\* accumulators hold what the run's own comparator calls produce from an empty list
\* and a new generator, and the files and the final scripts of a run that finished
\* are made of these alone, however the earlier run ended.
C22_NothingFromEarlierRun ==
    GeneratorBuilt
    => /\ diferencias = FreshRun.reporte
       /\ sql_objects_bd1 = FreshRun.bd1
       /\ sql_objects_bd2 = FreshRun.bd2
       /\ HasSignal("finished")
          => /\ files = Some(exportar_solo_diferencias(FreshRun.reporte, get_sql_bd1(FreshRun),
                                                       get_sql_bd2(FreshRun), options))
             /\ FinalScripts("SQL_BD1_COMPLETO") = {get_sql_bd1(FreshRun)}
             /\ FinalScripts("SQL_BD2_COMPLETO") = {get_sql_bd2(FreshRun)}

\* a second run that finished with records of its own after a run that had left records
C22_Witness ==
    /\ Len(runs) = 1
    /\ runs[1].registros
    /\ pc = "done"
    /\ HasSignal("finished")
    /\ diferencias # << >>

\* how many times sub occurs in s
Occurrences(s, sub) ==
    Cardinality({i \in 1..(Len(s) - Len(sub) + 1) : SubSeq(s, i, i + Len(sub) - 1) = sub})
KeyConstraint(t) == "ADD CONSTRAINT PK_" \o t \o " PRIMARY KEY"

\* C23: when a run with the tables option and the indexes or the primary-key option
\* reaches the export, each of the two flattened scripts has at most one
\* ADD CONSTRAINT PK_<table> PRIMARY KEY statement for each table.
C23_AtMostOneKeyStatement ==
    (RunComplete /\ options["tablas"] /\ (options["indices"] \/ options["pk"]))
    => \A t \in AllTables :
          /\ Occurrences(get_sql_bd1(St), KeyConstraint(t)) <= 1
          /\ Occurrences(get_sql_bd2(St), KeyConstraint(t)) <= 1

\* the records of table t in FK_<t> for foreign key fk of the database con that has t
OneSidedForeignKeyReported(con, t, fk) ==
    /\ \E i \in ReportRows("FK_" \o t, fk) : Contains(diferencias[i].estatus, "NO EXISTE")
    /\ CreateForeignKeySql(t, fk, Item(get_foreign_keys(con, t), fk))
           \in Statements1("FOREIGN_KEY") \cup Statements2("FOREIGN_KEY")

\* C24: when a run with every option checked reaches the export, each foreign key
\* of a table that exists in one database only has a one-sided record in FK_<table>
\* and its ADD CONSTRAINT ... FOREIGN KEY statement is in an accumulator.
C24_OneSidedTableForeignKeys ==
    (RunComplete /\ options = AllChecked)
    => /\ \A t \in OnlyIn(c1, c2) : \A fk \in KeySet(get_foreign_keys(c1, t)) :
             OneSidedForeignKeyReported(c1, t, fk)
       /\ \A t \in OnlyIn(c2, c1) : \A fk \in KeySet(get_foreign_keys(c2, t)) :
             OneSidedForeignKeyReported(c2, t, fk)

\* the positions of the finished and error signals among the signals of the run
TerminalSignals == {j \in 1..Len(signals) : signals[j].signal \in {"finished", "error"}}
\* at most one terminal signal, nothing after it, and it is there when the run is over
OneTerminalLast ==
    /\ Cardinality(TerminalSignals) <= 1
    /\ \A j \in TerminalSignals : j = Len(signals)
    /\ pc = "done" <=> Cardinality(TerminalSignals) = 1

\* C25: a run of run_comparison comes to an end; when it has, it has emitted exactly
\* one of finished and error, and at no time is there a second terminal signal or a
\* progress, message or sql_generated signal after the terminal one.
C25_ExactlyOneTerminalSignal ==
    /\ []OneTerminalLast
    /\ [][pc # "done" /\ pc' # pc]_vars
    /\ <>(pc = "done")

\* a run that reported progress and then ended in the except clause
C25_Witness ==
    /\ pc = "done"
    /\ HasSignal("progress")
    /\ HasSignal("error")
    /\ signals[Len(signals)].signal = "error"

\* the nine options that select a category of objects
CategoryOptions == OptionNames \ {"generar_sql"}

\* C26: a run that connected to both databases with none of the nine category options
\* checked ends with the error 'No se seleccionaron opciones de comparacion', without
\* a comparator call and without export files, whatever generar_sql is.
C26_NoCategoryIsAnError ==
    (pc = "done" /\ raised = "" /\ \A k \in CategoryOptions : ~options[k])
    => /\ \E j \in 1..Len(signals) :
             /\ signals[j].signal = "error"
             /\ signals[j].a = "No se seleccionaron opciones de comparacion"
       /\ ~HasSignal("finished")
       /\ invoked = << >>
       /\ files = NoFiles

FlattenedScript(destino) == IF destino = "BD1" THEN get_sql_bd1(St) ELSE get_sql_bd2(St)
OtherDestino(destino) == IF destino = "BD1" THEN "BD2" ELSE "BD1"
\* the emit_sql calls that passed sql for destino under a kind of the creation order
OrderedEmits(sql, destino) ==
    {i \in 1..Len(emitted) : /\ emitted[i].sql = sql
                             /\ emitted[i].destino = destino
                             /\ emitted[i].tipo \in Range(creation_order)}
\* the calls for destino under a kind of the creation order, in the order of the calls
OrderedTexts(destino) ==
    SelectSeq(emitted, LAMBDA e : e.destino = destino /\ e.tipo \in Range(creation_order))

ExportKeepsAccumulators ==
    pc = "exportar" => sql_objects_bd1' = sql_objects_bd1 /\ sql_objects_bd2' = sql_objects_bd2
\* a second call on what the first one left returns the first one's text
SameTextAgain(sql_objects) ==
    /\ GetSql(sql_objects).acc = sql_objects
    /\ GetSql(GetSql(sql_objects).acc).sql = GetSql(sql_objects).sql
\* the scripts of the export file are those of the two final sql_generated signals
ExportedIsSignalled ==
    HasSignal("finished")
    => /\ FinalScripts("SQL_BD1_COMPLETO") = {files[1].sql_completo.sql_para_bd2}
       /\ FinalScripts("SQL_BD2_COMPLETO") = {files[1].sql_completo.sql_para_bd1}
       /\ files[1].sql_completo.sql_para_bd2 = get_sql_bd1(St)
       /\ files[1].sql_completo.sql_para_bd1 = get_sql_bd2(St)

DdlLessCategories ==
    {[prefix |-> "Indices_", tipo |-> "INDICE"], [prefix |-> "FK_", tipo |-> "FOREIGN_KEY"],
     [prefix |-> "Triggers", tipo |-> "TRIGGER"], [prefix |-> "Procedimientos", tipo |-> "PROCEDIMIENTO"],
     [prefix |-> "Generadores", tipo |-> "GENERADOR"]}
\* the records of the category with the status, or with every one-sided status
RowsWith(prefix, estatus) ==
    {i \in 1..Len(diferencias) : /\ startswith(diferencias[i].hoja, prefix)
                                 /\ Contains(diferencias[i].estatus, estatus)}
\* the emit_sql calls of the kind
EmitsOfKind(tipo) == {k \in 1..Len(emitted) : emitted[k].tipo = tipo}

\* C29: in the categories indexes, foreign keys, triggers, procedures and sequences
\* a DIFERENTE record has no statement on either side, and the statements of the
\* category's kind passed to emit_sql are as many as its one-sided records: none was
\* appended for an object reported as DIFERENTE.
C29_DifferentHasNoDdl ==
    \A cat \in DdlLessCategories :
        /\ \A i \in RowsWith(cat.prefix, "DIFERENTE") :
              diferencias[i].sql_bd1 = "" /\ diferencias[i].sql_bd2 = ""
        /\ Cardinality(EmitsOfKind(cat.tipo)) = Cardinality(RowsWith(cat.prefix, "NO EXISTE"))

\* a changed foreign key and a changed trigger reported by two comparators
C29_Witness ==
    /\ RowsWith("FK_", "DIFERENTE") # {}
    /\ RowsWith("Triggers", "DIFERENTE") # {}

\* the runs launched whose finished or error signal has not been handled yet
UnhandledRuns == app.threads + Len(app.queued)

\* C30: at most one worker thread runs at any time, and the compare button is
\* disabled from the launch of a run until the slot of its finished or error signal
\* has run, whatever the user does in between.
C30_OneWorkerAtATime ==
    /\ app.threads <= 1
    /\ UnhandledRuns > 0 => ~app.btn_compare

============================================================================
